---------------------------- MODULE Spec2Model ----------------------------
(***************************************************************************)
(* TinyCat behaviour core: the state machine (src/src/state-machine.js,    *)
(* second definition, lines 208-436, the one that owns setDisabledStates), *)
(* the controller (src/src/cat.js, first definition, lines 8-117) and the  *)
(* cursor tracker (src/src/cursor-tracker.js).                             *)
(*                                                                         *)
(* Time is kept in milliseconds.  Date.now() is never stored: every        *)
(* timestamp the code keeps is modelled by its age (now - timestamp),      *)
(* which is all the code ever computes from it, and a pending setTimeout   *)
(* by the time left until it fires.  An age saturates at the largest      *)
(* value the code compares it with.                                        *)
(* Math.random() is a nondeterministic choice of the guard's outcome.      *)
(***************************************************************************)
EXTENDS Integers, Sequences, FiniteSets, TLC

VARIABLES
  sm,        \* StateMachine: _state, _disabledStates, _timer, and the
             \* timeouts it has pending in the page
  renderer,  \* Renderer: state shown, cursor-near flag, position, target
  cat,       \* Cat: _eventCooldowns
  tracker,   \* CursorTracker
  obs,       \* the last step: operation, inputs, calls it made
  hist       \* history: time spent in the current timed state, signals
             \* emitted in the current idle episode, pointer moves so far

vars == <<sm, renderer, cat, tracker, obs, hist>>

---------------------------------------------------------------------------
(* States and Events                                                       *)

IDLE        == "idle"
STRETCHING  == "stretching"
DRINKING    == "drinking"
POUNCE      == "pounce"
STARTLED    == "startled"
FALLING     == "falling"
GROOMING    == "grooming"
DIZZY       == "dizzy"
SLEEP       == "sleep"
ALERT_SLEEP == "alertSleep"

States == {IDLE, STRETCHING, DRINKING, POUNCE, STARTLED, FALLING, GROOMING,
           DIZZY, SLEEP, ALERT_SLEEP}

CURSOR_MOVE      == "cursorMove"
CURSOR_FAST      == "cursorFast"
CURSOR_IDLE      == "cursorIdle"
CLICK            == "click"
DIRECTION_CHANGE == "directionChange"
CIRCULAR_MOTION  == "circularMotion"
LONG_IDLE        == "longIdle"
MEDIUM_IDLE      == "mediumIdle"
NEAR_CURSOR      == "nearCursor"
CURSOR_AWAY      == "cursorAway"
ANIMATION_DONE   == "animationDone"
REPEATED_FAST    == "repeatedFast"

Events == {CURSOR_MOVE, CURSOR_FAST, CURSOR_IDLE, CLICK, DIRECTION_CHANGE,
           CIRCULAR_MOTION, LONG_IDLE, MEDIUM_IDLE, NEAR_CURSOR, CURSOR_AWAY,
           ANIMATION_DONE, REPEATED_FAST}

---------------------------------------------------------------------------
(* Transition table.  guard is TRUE for a rule that carries a              *)
(* Math.random() < p guard; pct records p in percent.                      *)

Rule(e, t)        == [event |-> e, target |-> t, guard |-> FALSE, pct |-> 100]
Guarded(e, t, p)  == [event |-> e, target |-> t, guard |-> TRUE,  pct |-> p]

\* Mutant of idleTransitions: the unguarded mediumIdle rule is missing.
idleTransitionsNoDefault ==
  << Rule(CLICK, STARTLED),
     Guarded(CURSOR_FAST, POUNCE, 40),
     Guarded(NEAR_CURSOR, STRETCHING, 30),
     Guarded(NEAR_CURSOR, POUNCE, 25),
     Rule(LONG_IDLE, SLEEP),
     Guarded(MEDIUM_IDLE, STRETCHING, 35),
     Guarded(MEDIUM_IDLE, GROOMING, 50) >>

\* transitions[States.IDLE]
idleTransitions ==
  << Rule(CLICK, STARTLED),
     Guarded(CURSOR_FAST, POUNCE, 40),
     Guarded(NEAR_CURSOR, STRETCHING, 30),
     Guarded(NEAR_CURSOR, POUNCE, 25),
     Rule(LONG_IDLE, SLEEP),
     Guarded(MEDIUM_IDLE, STRETCHING, 35),
     Guarded(MEDIUM_IDLE, GROOMING, 50),
     Rule(MEDIUM_IDLE, DRINKING) >>

\* transitions[States.ALERT_SLEEP] without the rule for click.
alertSleepTransitionsNoClick ==
  << Rule(NEAR_CURSOR, IDLE),
     Rule(CURSOR_AWAY, SLEEP),
     Rule(LONG_IDLE, SLEEP) >>

\* transitions[States.ALERT_SLEEP]
alertSleepTransitions ==
  << Rule(NEAR_CURSOR, IDLE),
     Rule(CLICK, STARTLED),
     Rule(CURSOR_AWAY, SLEEP),
     Rule(LONG_IDLE, SLEEP) >>

\* transitions[States.STARTLED] with a rule for cursorFast added.
startledTransitionsWithFast ==
  << Rule(CURSOR_FAST, POUNCE),
     Rule(ANIMATION_DONE, FALLING) >>

\* transitions[States.STARTLED]
startledTransitions ==
  << Rule(ANIMATION_DONE, FALLING) >>

transitions ==
  [s \in States |->
    CASE s = IDLE -> idleTransitions
      [] s = STRETCHING ->
           << Rule(CLICK, STARTLED),
              Rule(CURSOR_FAST, POUNCE),
              Guarded(ANIMATION_DONE, GROOMING, 30),
              Rule(ANIMATION_DONE, IDLE) >>
      [] s = DRINKING ->
           << Rule(CLICK, STARTLED),
              Rule(ANIMATION_DONE, IDLE) >>
      [] s = POUNCE ->
           << Rule(REPEATED_FAST, DIZZY),
              Rule(ANIMATION_DONE, IDLE) >>
      [] s = STARTLED -> startledTransitions
      [] s = FALLING ->
           << Guarded(ANIMATION_DONE, GROOMING, 60),
              Rule(ANIMATION_DONE, IDLE) >>
      [] s = GROOMING ->
           << Rule(CLICK, STARTLED),
              Guarded(ANIMATION_DONE, STRETCHING, 20),
              Rule(ANIMATION_DONE, IDLE) >>
      [] s = DIZZY ->
           << Rule(ANIMATION_DONE, IDLE) >>
      [] s = SLEEP ->
           << Rule(NEAR_CURSOR, ALERT_SLEEP),
              Rule(CLICK, STARTLED) >>
      [] s = ALERT_SLEEP -> alertSleepTransitions ]

\* Duration (ms) of each timed state; 0 stands for "no entry" (falsy).
stateDurations ==
  [s \in States |->
    CASE s = STRETCHING -> 3000
      [] s = DRINKING   -> 3500
      [] s = POUNCE     -> 800
      [] s = STARTLED   -> 600
      [] s = FALLING    -> 1000
      [] s = GROOMING   -> 4000
      [] s = DIZZY      -> 2500
      [] OTHER          -> 0 ]

TimedStates == {s \in States : stateDurations[s] > 0}

\* A null _timer (timeout handles are positive integers).
NoTimer == 0

\* The outcomes of Math.random() < p chosen for one handler run.  One send
\* draws at most twice (no (state, event) pair has more guarded rules), the
\* timer's send once (animationDone has one guarded rule at most), and a
\* frame tick at most five times (cursorFast, mediumIdle and nearCursor can
\* each reach send while the machine is still in idle).
NoDraws    == [{} -> BOOLEAN]
TimerDraws == [{1} -> BOOLEAN]
SendDraws  == [1..2 -> BOOLEAN]
TickDraws  == [1..5 -> BOOLEAN]

\* Number of states other than idle in a list handed to setDisabledStates;
\* idle may be listed in addition.
MaxDisabled == 1

DisabledArgs ==
  {X \cup I : X \in {Y \in SUBSET (States \ {IDLE}) : Cardinality(Y) <= MaxDisabled},
              I \in {{}, {IDLE}}}

\* Number of pointer-move events in one run.
MaxMoves == 2
\* The number of signal kinds the tracker's callback delivers in one
\* behaviour of the controller specification.
MaxKinds == 1

Min(a, b) == IF a <= b THEN a ELSE b
Max(a, b) == IF a >= b THEN a ELSE b

---------------------------------------------------------------------------
(* Controller (Cat) constants                                              *)

HOME_STATES   == {IDLE, STRETCHING, DRINKING, GROOMING, SLEEP, ALERT_SLEEP}
FREEZE_STATES == {POUNCE, DIZZY, STARTLED, FALLING}

FAST_NOTICE_RANGE == 250

\* _cooldownMs with an entry for click.
cooldownMsWithClick ==
  [e \in Events |->
    CASE e = CURSOR_FAST     -> 2000
      [] e = NEAR_CURSOR     -> 1500
      [] e = CURSOR_AWAY     -> 2000
      [] e = MEDIUM_IDLE     -> 1000
      [] e = CIRCULAR_MOTION -> 2000
      [] e = CLICK           -> 1000
      [] OTHER               -> 0 ]

\* Cat._cooldownMs; 0 stands for "no entry" (undefined, falsy).
cooldownMs ==
  [e \in Events |->
    CASE e = CURSOR_FAST     -> 2000
      [] e = NEAR_CURSOR     -> 1500
      [] e = CURSOR_AWAY     -> 2000
      [] e = MEDIUM_IDLE     -> 1000
      [] e = CIRCULAR_MOTION -> 2000
      [] OTHER               -> 0 ]

CooldownEvents == {e \in Events : cooldownMs[e] # 0}

---------------------------------------------------------------------------
(* Cursor tracker constants (DEFAULTS)                                     *)

fastSpeedThreshold == 18
dirChangeAngle     == 120
mediumIdleMs       == 8000
longIdleMs         == 30000
nearDistance       == 150
awayDistance       == 350
circularSamples    == 30
circularAngleSum   == 500
fastBurstWindow    == 5000
fastBurstCount     == 5

---------------------------------------------------------------------------
(* Renderer constants and geometry.  Pointer coordinates are CSS pixels.   *)
(* The renderer's coordinates are kept in half pixels, because half a      *)
(* sprite's width (w * PIXEL_SCALE / 2) is a multiple of 0.5.              *)

PIXEL_SCALE == 5

\* sprites[stateSprites[state]].w and .h (the black theme).
spriteSize ==
  [s \in States |->
    CASE s = IDLE        -> [w |-> 9,  h |-> 11]
      [] s = STRETCHING  -> [w |-> 9,  h |-> 11]
      [] s = DRINKING    -> [w |-> 12, h |-> 7]
      [] s = POUNCE      -> [w |-> 11, h |-> 8]
      [] s = STARTLED    -> [w |-> 11, h |-> 11]
      [] s = FALLING     -> [w |-> 6,  h |-> 8]
      [] s = GROOMING    -> [w |-> 10, h |-> 10]
      [] s = DIZZY       -> [w |-> 9,  h |-> 11]
      [] s = SLEEP       -> [w |-> 11, h |-> 7]
      [] s = ALERT_SLEEP -> [w |-> 9,  h |-> 11] ]

\* window.innerWidth and window.innerHeight of the page (px).
window == [innerWidth |-> 1200, innerHeight |-> 800]

\* Renderer.position, in half pixels.
position(r) ==
  [x |-> r.x + spriteSize[r.currentState].w * PIXEL_SCALE,
   y |-> r.y + spriteSize[r.currentState].h * PIXEL_SCALE]

\* Math.sqrt(dx * dx + dy * dy) compared with a range in pixels, where
\* (px, py) is in pixels and q in half pixels.  Squaring both sides of the
\* comparison is exact for the integers involved.
DistSq2(px, py, q) == (2 * px - q.x) * (2 * px - q.x) + (2 * py - q.y) * (2 * py - q.y)
RangeSq2(range)   == (2 * range) * (2 * range)

\* Positions the pointer is moved to (clientX, clientY), px.  With the cat
\* at home: two near it and 3 px apart, one 18 px further, one in the dead
\* zone within the fast-notice range, one in the dead zone outside it, one
\* away.
PointerPositions ==
  { [x |-> 1000, y |-> 700], [x |-> 1003, y |-> 700], [x |-> 1018, y |-> 700],
    [x |-> 900,  y |-> 700], [x |-> 800,  y |-> 700], [x |-> 700,  y |-> 700] }

\* Math.atan2(dy, dx) * (180 / Math.PI), rounded to a whole degree.  Exact
\* on the axes and diagonals; the other entries are the displacements from
\* the initial pointer position (the window centre) to the pointer positions
\* of the specifications.
Atan2Deg(dy, dx) ==
  IF dy = 0 THEN (IF dx >= 0 THEN 0 ELSE 180)
  ELSE IF dx = 0 THEN (IF dy > 0 THEN 90 ELSE -90)
  ELSE IF dx = dy THEN (IF dx > 0 THEN 45 ELSE -135)
  ELSE IF dx = -dy THEN (IF dx > 0 THEN -45 ELSE 135)
  ELSE CASE dy = 300 /\ dx = 400 -> 37
         [] dy = 300 /\ dx = 403 -> 37
         [] dy = 300 /\ dx = 418 -> 36
         [] dy = 300 /\ dx = 200 -> 56
         [] dy = 300 /\ dx = 230 -> 53
         [] dy = 300 /\ dx = 330 -> 42
         [] dy = 300 /\ dx = 100 -> 72

Abs(n) == IF n < 0 THEN -n ELSE n

RECURSIVE SumAbs(_)
SumAbs(q) == IF q = << >> THEN 0 ELSE Abs(Head(q)) + SumAbs(Tail(q))

RECURSIVE SeqFilterLess(_, _)
SeqFilterLess(q, bound) ==
  IF q = << >> THEN << >>
  ELSE IF Head(q) < bound THEN <<Head(q)>> \o SeqFilterLess(Tail(q), bound)
  ELSE SeqFilterLess(Tail(q), bound)

---------------------------------------------------------------------------
(* The world a handler runs in: the objects it can change, the random      *)
(* outcomes it will draw, and the calls it has made so far.                *)

\* No settings object: the step is not a call of applySettings.
NoSettings ==
  [has |-> {}, catSpeed |-> 0, idleTimeout |-> 0, disabledStates |-> {}]

World(draws) ==
  [sm |-> sm, renderer |-> renderer, cat |-> cat, tracker |-> tracker,
   draws |-> draws, drawn |-> 0,
   notified |-> << >>, sent |-> << >>, emitted |-> << >>, ret |-> FALSE,
   threw |-> FALSE, settings |-> NoSettings,
   directives |-> << >>, log |-> << >>]

\* Renderer.setState
setState(r, s) == IF s = r.currentState THEN r ELSE [r EXCEPT !.currentState = s]

\* setTarget without the subtraction of half the sprite's size.
setTargetNoOffset(r, p) == [r EXCEPT !.targetX = p.x, !.targetY = p.y]

\* LERP_SPEED, in hundredths.
LERP_SPEED == 8

\* a + (b - a) * LERP_SPEED, in half pixels, rounded down.
Lerp(a, b) == a + ((b - a) * LERP_SPEED) \div 100

\* Renderer._animate: the interpolation of the position.
animate(r) == [r EXCEPT !.x = Lerp(r.x, r.targetX), !.y = Lerp(r.y, r.targetY)]

\* Renderer.setTarget(x, y), x and y in half pixels
setTarget(r, p) ==
  [r EXCEPT !.targetX = p.x - spriteSize[r.currentState].w * PIXEL_SCALE,
            !.targetY = p.y - spriteSize[r.currentState].h * PIXEL_SCALE]

\* Renderer.goHome
goHome(r) == [r EXCEPT !.targetX = r.homeX, !.targetY = r.homeY]

\* Renderer.setCursorNear
setCursorNear(r, b) == [r EXCEPT !.cursorNear = b]

\* Renderer.setSpeed
setSpeed(r, v) == [r EXCEPT !.speed = v]

\* The record of a call of Renderer.setTarget(x, y) or Renderer.goHome().
Directive(call, p) == [call |-> call, x |-> p.x, y |-> p.y]

\* _onStateEnter with the two tests made independently of each other and
\* the home test on the state that was left.
onStateEnterBoth(w, s, oldState) ==
  LET p  == position(w.renderer)
      w1 == IF s \in FREEZE_STATES
              THEN [w EXCEPT !.renderer = setTarget(@, p),
                             !.directives = Append(@, Directive("setTarget", p))]
              ELSE w
  IN IF oldState \in HOME_STATES
       THEN [w1 EXCEPT !.renderer = goHome(@),
                       !.directives = Append(@, Directive("goHome", [x |-> 0, y |-> 0]))]
       ELSE w1

\* Cat._onStateEnter(state, _oldState)
onStateEnter(w, s, oldState) ==
  LET p == position(w.renderer) IN
  IF s \in FREEZE_STATES
    THEN [w EXCEPT !.renderer = setTarget(@, p),
                   !.directives = Append(@, Directive("setTarget", p))]
  ELSE IF s \in HOME_STATES
    THEN [w EXCEPT !.renderer = goHome(@),
                   !.directives = Append(@, Directive("goHome", [x |-> 0, y |-> 0]))]
  ELSE w

\* Renderer.setState(s) raises a TypeError at its last statement, the
\* assignment to this._labelEl.textContent, when _labelEl is null.
setStateThrows(r, s) == s # r.currentState /\ ~r.labelEl

\* The listener without its call of Renderer.setState.
onChangeEnterOnly(w, newState, oldState) == onStateEnter(w, newState, oldState)

\* The listener the Cat constructor registers with onChange; _onStateEnter
\* is not reached when setState raises.
onChange(w, newState, oldState) ==
  LET w1 == [w EXCEPT !.renderer = setState(@, newState)] IN
  IF setStateThrows(w.renderer, newState) THEN w1
  ELSE onStateEnter(w1, newState, oldState)

\* StateMachine._notify: the one registered listener is called once.
notify(w, newState, oldState) ==
  [onChange(w, newState, oldState) EXCEPT
     !.notified = Append(@, <<newState, oldState>>),
     !.threw = @ \/ setStateThrows(w.renderer, newState)]

\* Mutant of clearTimer: the handle is dropped, the timeout is not cleared.
clearTimerLeavesPending(m) == [m EXCEPT !.timer = NoTimer]

\* StateMachine._clearTimer: clearTimeout on the handle, then null.
clearTimer(m) ==
  IF m.timer # NoTimer
    THEN [m EXCEPT !.timer = NoTimer,
                   !.pending = {t \in @ : t.id # m.timer}]
    ELSE m

\* The handle setTimeout returns: the smallest one not pending.
FreshId(m) ==
  CHOOSE i \in 1..(Cardinality(m.pending) + 1) :
    /\ \A t \in m.pending : t.id # i
    /\ \A j \in 1..(i - 1) : \E t \in m.pending : t.id = j

\* StateMachine._startTimerIfNeeded
startTimerIfNeeded(m) ==
  LET duration == stateDurations[m.state] IN
  IF duration # 0
    THEN [m EXCEPT !.timer = FreshId(m),
                   !.pending = @ \cup {[id |-> FreshId(m), left |-> duration]}]
    ELSE m

\* The block send, its fallback and setDisabledStates share: set the state,
\* clear the timer, start the new state's timer, notify.
moveTo(w, target) ==
  LET old == w.sm.state
      m1  == [w.sm EXCEPT !.state = target]
      m2  == startTimerIfNeeded(clearTimer(m1))
  IN notify([w EXCEPT !.sm = m2], m2.state, old)

\* The k-th outcome of Math.random() < p in this handler run.
Draw(draws, k) == IF k \in DOMAIN draws THEN draws[k] ELSE FALSE

\* Mutant of scanRules: the disabled set is not consulted.
RECURSIVE scanRulesIgnoringDisabled(_, _, _, _, _, _)
scanRulesIgnoringDisabled(candidates, i, event, disabled, draws, k) ==
  IF i > Len(candidates) THEN [idx |-> 0, drawn |-> k]
  ELSE LET t == candidates[i] IN
       IF t.event # event
         THEN scanRulesIgnoringDisabled(candidates, i + 1, event, disabled,
                                        draws, k)
       ELSE IF t.guard /\ ~Draw(draws, k + 1)
         THEN scanRulesIgnoringDisabled(candidates, i + 1, event, disabled,
                                        draws, k + 1)
       ELSE [idx |-> i, drawn |-> IF t.guard THEN k + 1 ELSE k]

\* The scan of send without the cascade: the first rule for the event
\* decides, and a later one is never tried.
RECURSIVE scanRulesFirstOnly(_, _, _, _, _, _)
scanRulesFirstOnly(candidates, i, event, disabled, draws, k) ==
  IF i > Len(candidates) THEN [idx |-> 0, drawn |-> k]
  ELSE LET t == candidates[i] IN
       IF t.event # event
         THEN scanRulesFirstOnly(candidates, i + 1, event, disabled, draws, k)
       ELSE IF t.guard /\ ~Draw(draws, k + 1)
         THEN [idx |-> 0, drawn |-> k + 1]
       ELSE IF t.target \in disabled
         THEN [idx |-> 0, drawn |-> IF t.guard THEN k + 1 ELSE k]
       ELSE [idx |-> i, drawn |-> IF t.guard THEN k + 1 ELSE k]

\* send's loop from rule i on, k guards having been evaluated: the index of
\* the first rule that survives (0 when none does) and the guards evaluated.
RECURSIVE scanRules(_, _, _, _, _, _)
scanRules(candidates, i, event, disabled, draws, k) ==
  IF i > Len(candidates) THEN [idx |-> 0, drawn |-> k]
  ELSE LET t == candidates[i] IN
       IF t.event # event
         THEN scanRules(candidates, i + 1, event, disabled, draws, k)
       ELSE IF t.guard /\ ~Draw(draws, k + 1)
         THEN scanRules(candidates, i + 1, event, disabled, draws, k + 1)
       ELSE IF t.target \in disabled
         THEN scanRules(candidates, i + 1, event, disabled, draws,
                        IF t.guard THEN k + 1 ELSE k)
       ELSE [idx |-> i, drawn |-> IF t.guard THEN k + 1 ELSE k]

\* Mutant of send: no fallback to idle for animationDone.
sendNoFallback(w, event) ==
  LET candidates == transitions[w.sm.state]
      hit == scanRules(candidates, 1, event, w.sm.disabledStates,
                       w.draws, w.drawn)
      w1  == [w EXCEPT !.drawn = hit.drawn, !.sent = Append(@, event)]
  IN IF hit.idx # 0
       THEN [moveTo(w1, candidates[hit.idx].target) EXCEPT !.ret = TRUE]
       ELSE [w1 EXCEPT !.ret = FALSE]

\* send with the fallback to idle taken for every event.
sendFallbackAny(w, event) ==
  LET candidates == transitions[w.sm.state]
      hit == scanRules(candidates, 1, event, w.sm.disabledStates,
                       w.draws, w.drawn)
      w1  == [w EXCEPT !.drawn = hit.drawn, !.sent = Append(@, event)]
  IN IF hit.idx # 0
       THEN [moveTo(w1, candidates[hit.idx].target) EXCEPT !.ret = TRUE]
     ELSE IF w1.sm.state # IDLE
       THEN [moveTo(w1, IDLE) EXCEPT !.ret = TRUE]
     ELSE [w1 EXCEPT !.ret = FALSE]

\* StateMachine.send
send(w, event) ==
  LET candidates == transitions[w.sm.state]
      hit == scanRules(candidates, 1, event, w.sm.disabledStates,
                       w.draws, w.drawn)
      w1  == [w EXCEPT !.drawn = hit.drawn, !.sent = Append(@, event)]
  IN IF hit.idx # 0
       THEN [moveTo(w1, candidates[hit.idx].target) EXCEPT !.ret = TRUE]
     ELSE IF event = ANIMATION_DONE /\ w1.sm.state # IDLE
       THEN [moveTo(w1, IDLE) EXCEPT !.ret = TRUE]
     ELSE [w1 EXCEPT !.ret = FALSE]

\* Mutant of setDisabledStates: the current state is not checked.
setDisabledStatesNoSnap(w, states) ==
  [w EXCEPT !.sm.disabledStates = states \ {IDLE}]

\* Mutant of setDisabledStates: idle is not removed from the set.
setDisabledStatesKeepIdle(w, states) ==
  LET m1 == [w.sm EXCEPT !.disabledStates = states]
      w1 == [w EXCEPT !.sm = m1]
  IN IF m1.state \in m1.disabledStates THEN moveTo(w1, IDLE) ELSE w1

\* Mutant of setDisabledStates: the snap to idle notifies nobody.
setDisabledStatesSilent(w, states) ==
  LET m1 == [w.sm EXCEPT !.disabledStates = states \ {IDLE}]
  IN IF m1.state \in m1.disabledStates
       THEN [w EXCEPT !.sm = clearTimer([m1 EXCEPT !.state = IDLE])]
       ELSE [w EXCEPT !.sm = m1]

\* setDisabledStates with the timer cleared and started again on every call.
setDisabledStatesRestart(w, states) ==
  LET m1 == [w.sm EXCEPT !.disabledStates = states \ {IDLE}]
      w1 == [w EXCEPT !.sm = m1]
  IN IF m1.state \in m1.disabledStates THEN moveTo(w1, IDLE)
     ELSE [w1 EXCEPT !.sm = startTimerIfNeeded(clearTimer(m1))]

\* StateMachine.setDisabledStates
setDisabledStates(w, states) ==
  LET m1 == [w.sm EXCEPT !.disabledStates = states \ {IDLE}]
      w1 == [w EXCEPT !.sm = m1]
  IN IF m1.state \in m1.disabledStates THEN moveTo(w1, IDLE) ELSE w1

\* reset without the test `this._state !== old`.
resetAlwaysNotify(w, state) ==
  LET old == w.sm.state
      m1  == [w.sm EXCEPT !.state = state]
      m2  == startTimerIfNeeded(clearTimer(m1))
  IN notify([w EXCEPT !.sm = m2], m2.state, old)

\* StateMachine.reset
reset(w, state) ==
  LET old == w.sm.state
      m1  == [w.sm EXCEPT !.state = state]
      m2  == startTimerIfNeeded(clearTimer(m1))
      w1  == [w EXCEPT !.sm = m2]
  IN IF m2.state # old THEN notify(w1, m2.state, old) ELSE w1

---------------------------------------------------------------------------
(* Controller                                                              *)

\* Cat._handleEvent, the tracker's emit callback
\* _handleEvent without the assignment to _eventCooldowns[event].
handleEventNoStamp(w, event) ==
  LET r1 == IF event = NEAR_CURSOR THEN setCursorNear(w.renderer, TRUE)
            ELSE IF event = CURSOR_AWAY THEN setCursorNear(w.renderer, FALSE)
            ELSE w.renderer
      w1 == [w EXCEPT !.renderer = r1]
      tooFar == DistSq2(w.tracker.x, w.tracker.y, position(r1))
                  > RangeSq2(FAST_NOTICE_RANGE)
      cd == cooldownMs[event]
  IN IF event \in {CURSOR_FAST, REPEATED_FAST} /\ tooFar THEN w1
     ELSE IF cd # 0
       THEN IF w1.cat.eventCooldowns[event] < cd THEN w1
            ELSE send(w1, event)
     ELSE send(w1, event)

\* _handleEvent without the distance test.
handleEventAnyRange(w, event) ==
  LET r1 == IF event = NEAR_CURSOR THEN setCursorNear(w.renderer, TRUE)
            ELSE IF event = CURSOR_AWAY THEN setCursorNear(w.renderer, FALSE)
            ELSE w.renderer
      w1 == [w EXCEPT !.renderer = r1]
      cd == cooldownMs[event]
  IN IF cd # 0
       THEN IF w1.cat.eventCooldowns[event] < cd THEN w1
            ELSE send([w1 EXCEPT !.cat.eventCooldowns[event] = 0], event)
     ELSE send(w1, event)

\* _handleEvent with the cursor-near flag set only for a signal that is
\* passed to send.
handleEventFlagLate(w, event) ==
  LET tooFar == DistSq2(w.tracker.x, w.tracker.y, position(w.renderer))
                  > RangeSq2(FAST_NOTICE_RANGE)
      cd == cooldownMs[event]
      r1 == IF event = NEAR_CURSOR THEN setCursorNear(w.renderer, TRUE)
            ELSE IF event = CURSOR_AWAY THEN setCursorNear(w.renderer, FALSE)
            ELSE w.renderer
      w1 == [w EXCEPT !.renderer = r1]
  IN IF event \in {CURSOR_FAST, REPEATED_FAST} /\ tooFar THEN w
     ELSE IF cd # 0
       THEN IF w.cat.eventCooldowns[event] < cd THEN w
            ELSE send([w1 EXCEPT !.cat.eventCooldowns[event] = 0], event)
     ELSE send(w1, event)

\* _handleEvent with _eventCooldowns[event] assigned only when send made a
\* transition.
handleEventStampOnChange(w, event) ==
  LET r1 == IF event = NEAR_CURSOR THEN setCursorNear(w.renderer, TRUE)
            ELSE IF event = CURSOR_AWAY THEN setCursorNear(w.renderer, FALSE)
            ELSE w.renderer
      w1 == [w EXCEPT !.renderer = r1]
      tooFar == DistSq2(w.tracker.x, w.tracker.y, position(r1))
                  > RangeSq2(FAST_NOTICE_RANGE)
      cd == cooldownMs[event]
      w2 == send(w1, event)
  IN IF event \in {CURSOR_FAST, REPEATED_FAST} /\ tooFar THEN w1
     ELSE IF cd # 0
       THEN IF w1.cat.eventCooldowns[event] < cd THEN w1
            ELSE IF w2.ret THEN [w2 EXCEPT !.cat.eventCooldowns[event] = 0]
            ELSE w2
     ELSE w2

\* Cat._handleEvent(event)
handleEvent(w, event) ==
  LET r1 == IF event = NEAR_CURSOR THEN setCursorNear(w.renderer, TRUE)
            ELSE IF event = CURSOR_AWAY THEN setCursorNear(w.renderer, FALSE)
            ELSE w.renderer
      w1 == [w EXCEPT !.renderer = r1]
      tooFar == DistSq2(w.tracker.x, w.tracker.y, position(r1))
                  > RangeSq2(FAST_NOTICE_RANGE)
      cd == cooldownMs[event]
  IN IF event \in {CURSOR_FAST, REPEATED_FAST} /\ tooFar THEN w1
     ELSE IF cd # 0
       THEN IF w1.cat.eventCooldowns[event] < cd THEN w1
            ELSE send([w1 EXCEPT !.cat.eventCooldowns[event] = 0], event)
     ELSE send(w1, event)

\* CursorTracker.setIdleTimeout(seconds)
setIdleTimeout(t, seconds) == [t EXCEPT !.mediumIdleMs = seconds * 1000]

\* Cat.applySettings.  settings.has holds the names of the fields that are
\* not undefined.
applySettings(w, settings) ==
  LET w1 == IF "catSpeed" \in settings.has
              THEN [w EXCEPT !.renderer = setSpeed(@, settings.catSpeed)]
              ELSE w
      w2 == IF "idleTimeout" \in settings.has
              THEN [w1 EXCEPT !.tracker = setIdleTimeout(@, settings.idleTimeout)]
              ELSE w1
  IN IF "disabledStates" \in settings.has
       THEN setDisabledStates(w2, settings.disabledStates)
       ELSE w2

\* mount without the creation of the label element.
mountNoLabel(r) == IF r.mounted THEN r ELSE [r EXCEPT !.mounted = TRUE]

\* Renderer.mount / Renderer.unmount; unmount leaves _labelEl as it is.
mount(r)   == IF r.mounted THEN r ELSE [r EXCEPT !.mounted = TRUE, !.labelEl = TRUE]
unmount(r) == [r EXCEPT !.mounted = FALSE]

\* CursorTracker.start / CursorTracker.stop: the listeners and the frame
\* callback are registered exactly while _started holds.
trackerStart(t) == IF t.started THEN t ELSE [t EXCEPT !.started = TRUE]
trackerStop(t)  == [t EXCEPT !.started = FALSE]

\* Cat.start
start(w) ==
  reset([w EXCEPT !.renderer = mount(@), !.tracker = trackerStart(@)], IDLE)

\* Cat.stop
stop(w) == [w EXCEPT !.tracker = trackerStop(@), !.renderer = unmount(@)]

---------------------------------------------------------------------------
(* Cursor tracker                                                          *)

\* this._emit(event): the callback is Cat._handleEvent, called at once; the
\* log records the emission and the callback's return.
emit(w, event) ==
  LET w1 == [w EXCEPT !.emitted = Append(@, event),
                      !.log = Append(@, <<"emit", event>>)]
  IN [handleEvent(w1, event) EXCEPT !.log = Append(@, <<"handled", event>>)]

\* CursorTracker._onMouseMove
onMouseMove(t, p) ==
  [t EXCEPT !.x = p.x, !.y = p.y, !.lastMoveAge = 0,
            !.idleEmitted = [medium |-> FALSE, long |-> FALSE]]

\* CursorTracker._checkDirectionChange; speedSq is speed squared
checkDirectionChange(w, speedSq) ==
  LET d0    == Abs(w.tracker.angle - w.tracker.prevAngle)
      delta == IF d0 > 180 THEN 360 - d0 ELSE d0
  IN IF delta >= dirChangeAngle /\ speedSq > 4 * 4
       THEN emit(w, DIRECTION_CHANGE)
       ELSE w

\* _recordFastBurst without the reset of _fastBursts after the emission.
recordFastBurstKeep(w) ==
  LET bursts == SeqFilterLess(Append(w.tracker.fastBursts, 0), fastBurstWindow)
      w1     == [w EXCEPT !.tracker.fastBursts = bursts]
  IN IF Len(bursts) >= fastBurstCount
       THEN emit(w1, REPEATED_FAST)
       ELSE w1

\* _recordFastBurst without the pruning of old timestamps.
recordFastBurstNoPrune(w) ==
  LET bursts == Append(w.tracker.fastBursts, 0)
      w1     == [w EXCEPT !.tracker.fastBursts = bursts]
  IN IF Len(bursts) >= fastBurstCount
       THEN [emit(w1, REPEATED_FAST) EXCEPT !.tracker.fastBursts = << >>]
       ELSE w1

\* CursorTracker._recordFastBurst
recordFastBurst(w) ==
  LET bursts == SeqFilterLess(Append(w.tracker.fastBursts, 0), fastBurstWindow)
      w1     == [w EXCEPT !.tracker.fastBursts = bursts]
  IN IF Len(bursts) >= fastBurstCount
       THEN [emit(w1, REPEATED_FAST) EXCEPT !.tracker.fastBursts = << >>]
       ELSE w1

\* CursorTracker._checkSpeed
checkSpeed(w, speedSq) ==
  IF speedSq >= fastSpeedThreshold * fastSpeedThreshold
    THEN recordFastBurst(emit(w, CURSOR_FAST))
    ELSE w

\* CursorTracker._trackCircularMotion
trackCircularMotion(w) ==
  LET d0    == w.tracker.angle - w.tracker.prevAngle
      delta == IF d0 > 180 THEN d0 - 360
               ELSE IF d0 < -180 THEN d0 + 360 ELSE d0
      s1    == Append(w.tracker.angleSamples, delta)
      s2    == IF Len(s1) > circularSamples THEN Tail(s1) ELSE s1
      w1    == [w EXCEPT !.tracker.angleSamples = s2]
  IN IF Len(s2) = circularSamples /\ SumAbs(s2) >= circularAngleSum
       THEN [emit(w1, CIRCULAR_MOTION) EXCEPT !.tracker.angleSamples = << >>]
       ELSE w1

\* _checkIdle without the assignments to _idleEmitted.
checkIdleNoFlags(w) ==
  LET elapsed == w.tracker.lastMoveAge IN
  IF elapsed >= longIdleMs /\ ~w.tracker.idleEmitted.long
    THEN emit(w, LONG_IDLE)
  ELSE IF elapsed >= w.tracker.mediumIdleMs /\ ~w.tracker.idleEmitted.medium
    THEN emit(w, MEDIUM_IDLE)
  ELSE w

\* _checkIdle with the two thresholds tested independently of each other.
checkIdleBoth(w) ==
  LET elapsed == w.tracker.lastMoveAge
      w1 == IF elapsed >= longIdleMs /\ ~w.tracker.idleEmitted.long
              THEN emit([w EXCEPT !.tracker.idleEmitted.long = TRUE], LONG_IDLE)
              ELSE w
  IN IF elapsed >= w1.tracker.mediumIdleMs /\ ~w1.tracker.idleEmitted.medium
       THEN emit([w1 EXCEPT !.tracker.idleEmitted.medium = TRUE], MEDIUM_IDLE)
       ELSE w1

\* _checkIdle with the medium threshold tested before the long one.
checkIdleMediumFirst(w) ==
  LET elapsed == w.tracker.lastMoveAge IN
  IF elapsed >= w.tracker.mediumIdleMs /\ ~w.tracker.idleEmitted.medium
    THEN emit([w EXCEPT !.tracker.idleEmitted.medium = TRUE], MEDIUM_IDLE)
  ELSE IF elapsed >= longIdleMs /\ ~w.tracker.idleEmitted.long
    THEN emit([w EXCEPT !.tracker.idleEmitted.long = TRUE], LONG_IDLE)
  ELSE w

\* CursorTracker._checkIdle
checkIdle(w) ==
  LET elapsed == w.tracker.lastMoveAge IN
  IF elapsed >= longIdleMs /\ ~w.tracker.idleEmitted.long
    THEN emit([w EXCEPT !.tracker.idleEmitted.long = TRUE], LONG_IDLE)
  ELSE IF elapsed >= w.tracker.mediumIdleMs /\ ~w.tracker.idleEmitted.medium
    THEN emit([w EXCEPT !.tracker.idleEmitted.medium = TRUE], MEDIUM_IDLE)
  ELSE w

\* CursorTracker._checkProximity
checkProximity(w) ==
  LET distSq == DistSq2(w.tracker.x, w.tracker.y, position(w.renderer)) IN
  IF distSq < RangeSq2(nearDistance) THEN emit(w, NEAR_CURSOR)
  ELSE IF distSq > RangeSq2(awayDistance) THEN emit(w, CURSOR_AWAY)
  ELSE w

\* _tick with _checkSpeed called before _checkDirectionChange.
tickSpeedFirst(w) ==
  LET dx      == w.tracker.x - w.tracker.prevX
      dy      == w.tracker.y - w.tracker.prevY
      speedSq == dx * dx + dy * dy
      wa == [w EXCEPT !.tracker.angle = Atan2Deg(dy, dx)]
      w1 == IF 4 * speedSq > 1
              THEN emit(trackCircularMotion(
                          checkDirectionChange(checkSpeed(wa, speedSq), speedSq)),
                        CURSOR_MOVE)
              ELSE w
      w2 == checkProximity(checkIdle(w1))
  IN [w2 EXCEPT !.tracker.prevX = w2.tracker.x,
                !.tracker.prevY = w2.tracker.y,
                !.tracker.prevAngle = w2.tracker.angle]

\* CursorTracker._tick (called only while _started holds)
tick(w) ==
  LET dx      == w.tracker.x - w.tracker.prevX
      dy      == w.tracker.y - w.tracker.prevY
      speedSq == dx * dx + dy * dy
      wa == [w EXCEPT !.tracker.angle = Atan2Deg(dy, dx)]
      w1 == IF 4 * speedSq > 1      \* speed > 0.5
              THEN emit(trackCircularMotion(
                          checkSpeed(checkDirectionChange(wa, speedSq), speedSq)),
                        CURSOR_MOVE)
              ELSE w
      w2 == checkProximity(checkIdle(w1))
  IN [w2 EXCEPT !.tracker.prevX = w2.tracker.x,
                !.tracker.prevY = w2.tracker.y,
                !.tracker.prevAngle = w2.tracker.angle]

---------------------------------------------------------------------------
(* State after the content script has constructed the Cat                  *)

\* What is remembered of the signals of one kind that HandleEvent has
\* delivered to the controller: the time since the last one was delivered and since the last
\* one was passed to send (both saturating at the kind's cooldown), whether
\* the last one delivered was passed, and whether there has been any.
NeverSeen(e) ==
  [sincePassed |-> cooldownMs[e], sinceDelivered |-> cooldownMs[e],
   passed |-> FALSE, any |-> FALSE]

InSeq(q, e) == \E i \in DOMAIN q : q[i] = e

\* The pointer is farther than FAST_NOTICE_RANGE from the cat.
PointerFar ==
  DistSq2(tracker.x, tracker.y, position(renderer)) > RangeSq2(FAST_NOTICE_RANGE)

InitWith(age, focus) ==
  /\ sm = [state |-> IDLE, disabledStates |-> {}, timer |-> NoTimer,
           pending |-> {}]
  /\ renderer = [currentState |-> IDLE, mounted |-> FALSE, labelEl |-> FALSE,
                 cursorNear |-> FALSE, speed |-> 5,
                 x |-> 2 * (window.innerWidth - 120),
                 y |-> 2 * (window.innerHeight - 100),
                 targetX |-> 2 * (window.innerWidth - 120),
                 targetY |-> 2 * (window.innerHeight - 100),
                 homeX |-> 2 * (window.innerWidth - 120),
                 homeY |-> 2 * (window.innerHeight - 100)]
  /\ cat = [eventCooldowns |-> [e \in CooldownEvents |-> cooldownMs[e]]]
  /\ tracker = [started |-> FALSE,
                x |-> window.innerWidth \div 2, y |-> window.innerHeight \div 2,
                prevX |-> window.innerWidth \div 2,
                prevY |-> window.innerHeight \div 2,
                angle |-> 0, prevAngle |-> 0, lastMoveAge |-> age,
                idleEmitted |-> [medium |-> FALSE, long |-> FALSE],
                angleSamples |-> << >>, fastBursts |-> << >>,
                mediumIdleMs |-> mediumIdleMs]
  /\ obs = [op |-> "init", ev |-> "none", argHasFrom |-> FALSE,
            argHasIdle |-> FALSE, from |-> IDLE,
            notified |-> << >>, sent |-> << >>, emitted |-> << >>,
            ret |-> FALSE, heldFor |-> 0, before |-> NeverSeen(CURSOR_FAST),
            far |-> FALSE, fast |-> FALSE, bursts |-> 0,
            threw |-> FALSE, settings |-> NoSettings,
            draws |-> << >>, log |-> << >>,
            directives |-> << >>]
  /\ hist = [sinceEnter |-> 0, medium |-> 0, long |-> 0, moves |-> 0,
             focus |-> focus,
             earlier |-> [medium |-> FALSE, long |-> FALSE],
             fast |-> << >>,
             loaded |-> FALSE, config |-> {}, off |-> FALSE,
             signals |-> [e \in CooldownEvents |-> NeverSeen(e)]]

\* age is the time since the constructor ran; nothing else has run yet.
InitAt(age) == InitWith(age, {})

Init == InitAt(0)

\* Number of times event e occurs in sequence q.
Count(q, e) == Cardinality({i \in DOMAIN q : q[i] = e})

\* The largest duration in stateDurations.
MaxDuration == 4000

\* The frame about to run sees the pointer displaced by at least
\* fastSpeedThreshold since the previous frame.
FrameFast ==
  LET dx == tracker.x - tracker.prevX
      dy == tracker.y - tracker.prevY
  IN dx * dx + dy * dy >= fastSpeedThreshold * fastSpeedThreshold

\* The last q entries of a sequence.
LastOf(q, n) == IF Len(q) > n THEN SubSeq(q, Len(q) - n + 1, Len(q)) ELSE q

\* A handler has run to completion in world w: its effects become the
\* next state, and what it did is recorded.
Commit(w, op, ev, arg) ==
  /\ sm' = w.sm
  /\ renderer' = w.renderer
  /\ cat' = w.cat
  /\ tracker' = w.tracker
  /\ obs' = [op |-> op, ev |-> ev, argHasFrom |-> sm.state \in arg,
             argHasIdle |-> IDLE \in arg, from |-> sm.state,
             notified |-> w.notified, sent |-> w.sent, emitted |-> w.emitted,
             ret |-> w.ret, heldFor |-> hist.sinceEnter,
             before |-> IF ev \in CooldownEvents THEN hist.signals[ev]
                        ELSE NeverSeen(CURSOR_FAST),
             far |-> PointerFar,
             fast |-> op = "tick" /\ FrameFast,
             bursts |-> IF op = "tick"
                          THEN Len(SeqFilterLess(tracker.fastBursts, fastBurstWindow))
                          ELSE 0,
             threw |-> w.threw, settings |-> w.settings,
             draws |-> [i \in 1..w.drawn |-> Draw(w.draws, i)],
             directives |-> w.directives, log |-> w.log]
  /\ hist' = [sinceEnter |-> IF w.notified # << >> THEN 0 ELSE hist.sinceEnter,
              focus |-> hist.focus,
              loaded |-> hist.loaded \/ op = "load",
              off |-> IF op = "stop" THEN TRUE
                      ELSE IF op = "start" THEN FALSE ELSE hist.off,
              config |-> IF (hist.loaded \/ op = "load")
                            /\ "disabledStates" \in w.settings.has
                           THEN w.settings.disabledStates ELSE hist.config,
              fast |-> IF op = "tick" /\ FrameFast
                         THEN LastOf(Append(hist.fast, 0), fastBurstCount)
                         ELSE hist.fast,
              earlier |-> IF op = "mouseMove"
                            THEN [medium |-> hist.earlier.medium \/ hist.medium > 0,
                                  long   |-> hist.earlier.long \/ hist.long > 0]
                            ELSE hist.earlier,
              signals |->
                [e \in CooldownEvents |->
                   IF op = "handleEvent" /\ e = ev
                     THEN [sincePassed |-> IF InSeq(w.sent, e) THEN 0
                                           ELSE hist.signals[e].sincePassed,
                           sinceDelivered |-> 0,
                           passed |-> InSeq(w.sent, e), any |-> TRUE]
                     ELSE hist.signals[e]],
              medium |-> IF op = "mouseMove" THEN 0
                         ELSE Min(2, hist.medium + Count(w.emitted, MEDIUM_IDLE)),
              long   |-> IF op = "mouseMove" THEN 0
                         ELSE Min(2, hist.long + Count(w.emitted, LONG_IDLE)),
              moves  |-> IF op = "mouseMove" THEN Min(MaxMoves, hist.moves + 1)
                         ELSE hist.moves]

---------------------------------------------------------------------------
(* Actions                                                                 *)

\* The content script calls Cat.start().
Start == Commit(start(World(NoDraws)), "start", "none", {})

\* The content script calls Cat.stop().
Stop == Commit(stop(World(NoDraws)), "stop", "none", {})

\* The content script's chrome.storage.sync.get callback runs with the
\* stored snapshot data: data.enabled and the three settings.
onStorage(w, data) ==
  IF data.enabled THEN applySettings(start(w), data.settings) ELSE w

\* The storage callback runs, once.
Load(snapshots) ==
  /\ ~hist.loaded
  /\ \E data \in snapshots :
       Commit([onStorage(World(NoDraws), data) EXCEPT !.settings = data.settings],
              "load", "none", data.settings.disabledStates)

\* The content script calls Cat.applySettings(settings).
ApplySettings(args) ==
  \E settings \in args :
    Commit([applySettings(World(NoDraws), settings) EXCEPT !.settings = settings],
           "applySettings", "none",
           IF "disabledStates" \in settings.has
             THEN settings.disabledStates ELSE {})

\* StateMachine.send(event) is called for an event the controller admitted.
Send(events) ==
  /\ tracker.started
  /\ \E event \in events, draws \in SendDraws :
       Commit(send(World(draws), event), "send", event, {})

\* The pending timeout fires: its callback calls send(ANIMATION_DONE).  The
\* fired timeout is no longer pending; _timer still holds its handle.
TimerFireWith(draws) ==
  \E t \in sm.pending :
    /\ t.left = 0
    /\ \E w \in {send([World(draws) EXCEPT !.sm.pending = @ \ {t}],
                       ANIMATION_DONE)} :
         Commit(w, "timer", ANIMATION_DONE, {})

\* The timeout fires with any outcome of the guard its send evaluates.
TimerFire == \E draws \in TimerDraws : TimerFireWith(draws)

\* StateMachine.reset(state) is called.
Reset(states) ==
  \E state \in states :
    Commit(reset(World(NoDraws), state), "reset", "none", {})

\* The renderer's animation frame callback Renderer._animate runs.
Animate ==
  /\ renderer.mounted
  /\ Commit([World(NoDraws) EXCEPT !.renderer = animate(@)],
            "animate", "none", {})

\* The tracker calls its emit callback, Cat._handleEvent(event).
HandleEvent(events) ==
  /\ tracker.started
  /\ \E event \in events \cap hist.focus, draws \in SendDraws :
       Commit(emit(World(draws), event), "handleEvent", event, {})

\* A mousemove event is dispatched to CursorTracker._onMouseMove.
MouseMove(positions) ==
  /\ tracker.started
  /\ hist.moves < MaxMoves
  /\ \E p \in positions :
       Commit([World(NoDraws) EXCEPT !.tracker = onMouseMove(@, p)],
              "mouseMove", "none", {})

\* A mousemove event, in a run that does not count them.
PointerMove(positions) ==
  /\ tracker.started
  /\ \E p \in positions :
       Commit([World(NoDraws) EXCEPT !.tracker = onMouseMove(@, p)],
              "mouseMove", "none", {})

\* A click event is dispatched to CursorTracker._onClick.
Click ==
  /\ tracker.started
  /\ Commit(emit(World(NoDraws), CLICK), "click", CLICK, {})

\* The animation frame callback CursorTracker._tick runs.
Tick ==
  /\ tracker.started
  /\ \E draws \in TickDraws :
       \E w \in {tick(World(draws))} : Commit(w, "tick", "none", {})

\* Time passes: by one of the given amounts, or up to the moment the next
\* timeout is due when that comes first.  A due timeout fires before any
\* more time passes.
TimeLeft == IF sm.pending = {} THEN MaxDuration
            ELSE CHOOSE l \in {t.left : t \in sm.pending} :
                   \A t \in sm.pending : l <= t.left

Advance(steps) ==
  \E step \in steps :
    LET d == Min(step, TimeLeft) IN
    /\ d > 0
    /\ sm' = [sm EXCEPT !.pending = {[t EXCEPT !.left = @ - d] : t \in @}]
    /\ cat' = [cat EXCEPT !.eventCooldowns =
                 [e \in CooldownEvents |-> Min(cooldownMs[e], @[e] + d)]]
    /\ tracker' = [tracker EXCEPT
                     !.lastMoveAge = Min(Max(longIdleMs, tracker.mediumIdleMs), @ + d),
                     !.fastBursts = [i \in DOMAIN @ |-> Min(fastBurstWindow, @[i] + d)]]
    /\ hist' = [hist EXCEPT
                  !.sinceEnter =
                    IF sm.state \in TimedStates THEN Min(MaxDuration, @ + d) ELSE 0,
                  !.fast = SeqFilterLess([i \in DOMAIN @ |-> @[i] + d],
                                         fastBurstWindow),
                  !.signals =
                    [e \in CooldownEvents |->
                       [@[e] EXCEPT
                          !.sincePassed = Min(cooldownMs[e], @ + d),
                          !.sinceDelivered = Min(cooldownMs[e], @ + d)]]]
    /\ obs' = [op |-> "advance", ev |-> "none", argHasFrom |-> FALSE,
               argHasIdle |-> FALSE, from |-> sm.state,
               notified |-> << >>, sent |-> << >>, emitted |-> << >>,
               ret |-> FALSE, heldFor |-> hist.sinceEnter,
               before |-> NeverSeen(CURSOR_FAST), far |-> PointerFar,
               fast |-> FALSE, bursts |-> 0,
               threw |-> FALSE, settings |-> NoSettings,
               draws |-> << >>, log |-> << >>,
               directives |-> << >>]
    /\ UNCHANGED renderer

---------------------------------------------------------------------------
(* Spec: the state machine driven through its interface.  Every event can  *)
(* be sent in every state, under every disabled set of up to MaxDisabled   *)
(* states, with the timers running.                                        *)

DisabledOnly ==
  {[has |-> {"disabledStates"}, catSpeed |-> 0, idleTimeout |-> 0,
    disabledStates |-> X] : X \in DisabledArgs}

MachineSteps == {500}

\* The page has been left alone for longIdleMs since the Cat was constructed
\* (the state Init reaches by Advance steps alone).
InitQuiet == InitAt(longIdleMs)

\* animationDone is sent by the timer callback alone.
ExternalEvents == Events \ {ANIMATION_DONE}

Next ==
  \/ Start
  \/ Stop
  \/ ApplySettings(DisabledOnly)
  \/ Send(ExternalEvents)
  \/ TimerFire
  \/ Advance(MachineSteps)

Spec == InitQuiet /\ [][Next]_vars

---------------------------------------------------------------------------
(* SpecCat: the controller.  The tracker's callback delivers any event it  *)
(* can emit, at any time.  The pointer is moved once, to a position within *)
(* FAST_NOTICE_RANGE of the cat or to one outside it.                      *)

\* The events CursorTracker emits.
TrackerEvents == Events \ {CURSOR_IDLE, ANIMATION_DONE}

CatSteps == {1000}

\* The kinds of signal delivered in one behaviour.
Focuses == {F \in SUBSET TrackerEvents : Cardinality(F) <= MaxKinds}

\* A step long enough for every clock of the model to reach its final value.
RestSteps == {longIdleMs}

\* One pointer position within FAST_NOTICE_RANGE of the cat's home position
\* and one outside it.
CatPointers == { [x |-> 900, y |-> 700], [x |-> 700, y |-> 700] }

\* A cooldown is running or a state's timer is pending: only then does the
\* passing of time change what the controller does next.
CatBusy ==
  \/ sm.timer # NoTimer
  \/ \E e \in CooldownEvents : cat.eventCooldowns[e] < cooldownMs[e]

\* The tracker's own clock has reached its final value, so that the only
\* time that passes between two signals is the controller's.
AtRest == tracker.lastMoveAge >= longIdleMs

NextCat ==
  \/ Start
  \/ (AtRest /\ HandleEvent(TrackerEvents))
  \/ (hist.moves = 0 /\ MouseMove(CatPointers))
  \/ TimerFire
  \/ (CatBusy /\ Advance(CatSteps))
  \/ (~CatBusy /\ Advance(RestSteps))

InitCat == \E focus \in Focuses : InitWith(longIdleMs, focus)

SpecCat == InitCat /\ [][NextCat]_vars

---------------------------------------------------------------------------
(* Properties of the state machine                                         *)

\* The targets of the rules declared for (s, e).
Targets(s, e) ==
  {transitions[s][i].target :
     i \in {j \in DOMAIN transitions[s] : transitions[s][j].event = e}}

\* The last step was a call of send (by a caller or by the timer callback).
SendStep == obs.op \in {"send", "timer"}

\* C1 as stated: send(E) in S leaves the state unchanged or moves to a
\* non-disabled target of a rule declared for (S, E), and nowhere else.
C1_SendStaysInRuleSet ==
  SendStep =>
    \/ sm.state = obs.from
    \/ sm.state \in Targets(obs.from, obs.ev) \ sm.disabledStates

\* C1 amended: send(E) in S leaves the state unchanged, or moves to a
\* non-disabled target of a rule declared for (S, E), or, only when E is
\* animationDone and S is not idle, moves to idle (the fallback).
C1_SendStaysInRuleSetOrFallback ==
  SendStep =>
    \/ sm.state = obs.from
    \/ sm.state \in Targets(obs.from, obs.ev) \ sm.disabledStates
    \/ obs.ev = ANIMATION_DONE /\ obs.from # IDLE /\ sm.state = IDLE

\* C1 witness: a send skipped a disabled target and took a later rule.
C1_Witness ==
  /\ obs.op = "send" /\ obs.from = IDLE /\ obs.ev = MEDIUM_IDLE
  /\ STRETCHING \in sm.disabledStates
  /\ sm.state = DRINKING

\* C2: the active state is never a member of the disabled set.
C2_ActiveStateEnabled == sm.state \notin sm.disabledStates

\* C2 witness: the machine was in a state that has just been disabled.
C2_Witness ==
  /\ obs.op = "applySettings" /\ obs.argHasFrom /\ obs.from # IDLE
  /\ obs.from \in sm.disabledStates

\* A rule for (s, e) with target idle and no guard is reached by the scan
\* whatever the guards give: every earlier rule for e has a disabled target.
IdleRuleReached(s, e, disabled) ==
  \E i \in DOMAIN transitions[s] :
    /\ transitions[s][i].event = e
    /\ transitions[s][i].target = IDLE
    /\ ~transitions[s][i].guard
    /\ \A j \in 1..(i - 1) :
         transitions[s][j].event = e => transitions[s][j].target \in disabled

\* C3: idle is never in the disabled set, also after setDisabledStates was
\* given a set that contains it, and a rule whose target is idle is taken.
C3_IdleNeverDisabled ==
  /\ IDLE \notin sm.disabledStates
  /\ (SendStep /\ IdleRuleReached(obs.from, obs.ev, sm.disabledStates))
       => (sm.state = IDLE /\ obs.ret)

\* C3 witness: setDisabledStates was given idle together with another state.
C3_Witness ==
  /\ obs.op = "applySettings" /\ obs.argHasIdle
  /\ sm.disabledStates # {}

\* C4 as stated: setDisabledStates with a set that contains the current
\* state moves to idle, cancels the timer and notifies once with
\* (idle, previous); with any other set nothing is notified.
C4_DisableCurrentNotifiesOnce ==
  obs.op = "applySettings" =>
    IF obs.argHasFrom
      THEN /\ sm.state = IDLE
           /\ sm.timer = NoTimer /\ sm.pending = {}
           /\ obs.notified = << <<IDLE, obs.from>> >>
      ELSE obs.notified = << >>

\* C4 amended: the same, for a current state other than idle; when the
\* current state is idle, or is not in the set, nothing is notified and the
\* state stays.
C4_DisableCurrentNonIdleNotifiesOnce ==
  obs.op = "applySettings" =>
    IF obs.argHasFrom /\ obs.from # IDLE
      THEN /\ sm.state = IDLE
           /\ sm.timer = NoTimer /\ sm.pending = {}
           /\ obs.notified = << <<IDLE, obs.from>> >>
      ELSE obs.notified = << >> /\ sm.state = obs.from

\* C4 witness: a timed state with its timer pending has been disabled.
C4_Witness ==
  /\ obs.op = "applySettings" /\ obs.argHasFrom
  /\ obs.from \in TimedStates /\ obs.heldFor > 0

\* C5: animationDone delivered in a timed state always causes a transition,
\* to idle when every rule's target is disabled.
C5_AnimationDoneAlwaysLeaves ==
  (SendStep /\ obs.ev = ANIMATION_DONE /\ obs.from \in TimedStates) =>
    /\ sm.state # obs.from
    /\ obs.ret
    /\ obs.notified = << <<sm.state, obs.from>> >>
    /\ (Targets(obs.from, ANIMATION_DONE) \subseteq sm.disabledStates
          => sm.state = IDLE)

\* C5 witness: startled's only target, falling, is disabled when its timer
\* fires.
C5_Witness ==
  /\ obs.op = "timer" /\ obs.from = STARTLED
  /\ FALLING \in sm.disabledStates /\ sm.state = IDLE

\* C6: while a timed state is active its timer is pending and is due
\* exactly when the state has lasted its duration; the timer's
\* animationDone arrives then, not earlier, and the state is left.
C6_TimerFiresAtDuration ==
  /\ sm.state \in TimedStates =>
       /\ sm.timer # NoTimer
       /\ \E t \in sm.pending :
            /\ t.id = sm.timer
            /\ t.left + hist.sinceEnter = stateDurations[sm.state]
  /\ obs.op = "timer" =>
       /\ obs.heldFor = stateDurations[obs.from]
       /\ sm.state # obs.from

\* C6 witness: pounce was left by its timer 800 ms after it was entered.
C6_Witness ==
  obs.op = "timer" /\ obs.from = POUNCE /\ obs.heldFor = 800

---------------------------------------------------------------------------
(* SpecIdle: the classifier's idle episodes.  The pointer moves between    *)
(* two positions, frames run at any time (or not at all, as in a hidden    *)
(* tab), and time passes.                                                  *)

IdleSteps == {4000}

\* Two pointer positions farther than FAST_NOTICE_RANGE from the cat and
\* nearer than awayDistance.
IdlePointers == { [x |-> 800, y |-> 700], [x |-> 830, y |-> 700] }

NextIdle ==
  \/ Start
  \/ MouseMove(IdlePointers)
  \/ Tick
  \/ TimerFire
  \/ Advance(IdleSteps)

SpecIdle == Init /\ [][NextIdle]_vars

\* A signal of a kind that has a cooldown was delivered to the controller.
DeliveryStep == obs.op = "handleEvent" /\ obs.ev \in CooldownEvents

\* The signal delivered in the last step was passed to StateMachine.send.
Passed == InSeq(obs.sent, obs.ev)

\* C7 as stated: of two signals of one kind delivered less than the
\* cooldown apart only the first is passed to send; of two delivered at
\* least the cooldown apart both are passed.
C7_CooldownBetweenDeliveries ==
  (DeliveryStep /\ obs.before.any) =>
    /\ obs.before.passed
    /\ Passed <=> (obs.before.sinceDelivered >= cooldownMs[obs.ev])

\* C7 amended: the cooldown runs from the last signal of the kind that was
\* passed to send.  A delivered signal is passed exactly when none of its
\* kind was passed less than the cooldown before it and, for cursorFast,
\* the pointer is within FAST_NOTICE_RANGE of the cat.
C7_CooldownSinceLastPassed ==
  DeliveryStep =>
    (Passed <=> /\ obs.before.sincePassed >= cooldownMs[obs.ev]
                /\ ~(obs.ev = CURSOR_FAST /\ obs.far))

\* C7 witness: a signal was dropped because one of its kind had been
\* passed less than the cooldown before it.
C7_Witness ==
  /\ DeliveryStep /\ obs.before.any /\ obs.before.passed
  /\ obs.before.sinceDelivered > 0
  /\ obs.before.sinceDelivered < cooldownMs[obs.ev]
  /\ ~Passed

\* C10 as stated: mediumIdle reaching the machine in idle makes one of
\* stretching, grooming, drinking the active state.
C10_MediumIdleCascade ==
  (obs.op = "send" /\ obs.ev = MEDIUM_IDLE /\ obs.from = IDLE) =>
    sm.state \in {STRETCHING, GROOMING, DRINKING}

\* C10 amended: one of stretching, grooming, drinking that is not disabled
\* becomes the active state; when drinking is disabled the machine may
\* stay in idle instead; no other state is entered.
C10_MediumIdleCascadeEnabled ==
  (obs.op = "send" /\ obs.ev = MEDIUM_IDLE /\ obs.from = IDLE) =>
    \/ /\ sm.state \in {STRETCHING, GROOMING, DRINKING} \ sm.disabledStates
       /\ obs.notified = << <<sm.state, IDLE>> >>
    \/ /\ DRINKING \in sm.disabledStates
       /\ sm.state = IDLE /\ obs.notified = << >>

\* C10 witness: the second rule of the cascade fired.
C10_Witness ==
  /\ obs.op = "send" /\ obs.ev = MEDIUM_IDLE /\ obs.from = IDLE
  /\ sm.state = GROOMING

\* C8: in one idle episode (no mousemove) mediumIdle is emitted at most
\* once and longIdle at most once, and a mousemove leaves both eligible
\* to be emitted again.
C8_IdleSignalsOncePerEpisode ==
  /\ hist.medium <= 1
  /\ hist.long <= 1
  /\ obs.op = "mouseMove" =>
       (~tracker.idleEmitted.medium /\ ~tracker.idleEmitted.long)

\* C8 witness: mediumIdle was emitted in an earlier episode and, after a
\* mousemove, has been emitted again in the current one.
C8_Witness ==
  hist.earlier.medium /\ hist.medium = 1 /\ tracker.idleEmitted.medium

\* C9 as stated: an idle episode never emits both mediumIdle and longIdle.
C9_OneIdleSignalPerEpisode == ~(hist.medium >= 1 /\ hist.long >= 1)

\* C9 amended: one frame emits at most one of mediumIdle and longIdle,
\* longIdle when its threshold has been reached and it is still eligible;
\* an episode can emit both of them, in different frames.
C9_OneIdleSignalPerFrame ==
  obs.op = "tick" =>
    /\ Count(obs.emitted, MEDIUM_IDLE) + Count(obs.emitted, LONG_IDLE) <= 1
    /\ InSeq(obs.emitted, MEDIUM_IDLE) =>
         (tracker.lastMoveAge < longIdleMs \/ hist.long >= 1)

\* C9 witness: a frame emitted longIdle in an episode that had already
\* emitted mediumIdle.
C9_Witness ==
  /\ obs.op = "tick" /\ InSeq(obs.emitted, LONG_IDLE)
  /\ hist.medium = 1 /\ hist.long = 1

---------------------------------------------------------------------------
(* SpecSleep: the sleeping cat.  The tracker delivers longIdle and the     *)
(* proximity signals, the page is clicked, startled is disabled and        *)
(* enabled again, and time passes.                                         *)

SleepSignals == {LONG_IDLE, NEAR_CURSOR, CURSOR_AWAY}

SleepSteps == {1000}

\* Settings that enable every state or disable startled.
StartledOnOff ==
  {[has |-> {"disabledStates"}, catSpeed |-> 0, idleTimeout |-> 0,
    disabledStates |-> X] : X \in {{}, {STARTLED}}}

NextSleep ==
  \/ Start
  \/ ApplySettings(StartledOnOff)
  \/ HandleEvent(SleepSignals)
  \/ Click
  \/ TimerFire
  \/ Advance(SleepSteps)

SpecSleep == InitWith(longIdleMs, SleepSignals) /\ [][NextSleep]_vars

\* A click event was dispatched while the machine was in sleep or alertSleep.
ClickAsleep == obs.op = "click" /\ obs.from \in {SLEEP, ALERT_SLEEP}

\* C11 as stated: a click in sleep or alertSleep makes startled the active
\* state in the same callback.
C11_ClickWakesStartled == ClickAsleep => sm.state = STARTLED

\* C11 amended: unless startled is disabled, a click in sleep or alertSleep
\* is passed to send and makes startled the active state in the same
\* callback, whatever the cooldown ages and the proximity flag are; when
\* startled is disabled the click changes nothing.
C11_ClickWakesStartledIfEnabled ==
  ClickAsleep =>
    IF STARTLED \in sm.disabledStates
      THEN sm.state = obs.from /\ obs.notified = << >>
      ELSE /\ sm.state = STARTLED
           /\ obs.sent = << CLICK >>
           /\ obs.notified = << <<STARTLED, obs.from>> >>

\* C11 witness: a click woke the cat from alertSleep while the nearCursor
\* cooldown was still running.
C11_Witness ==
  /\ obs.op = "click" /\ obs.from = ALERT_SLEEP /\ sm.state = STARTLED
  /\ cat.eventCooldowns[NEAR_CURSOR] < cooldownMs[NEAR_CURSOR]

---------------------------------------------------------------------------
(* SpecBurst: fast pointer movement near the cat.  The pointer jumps       *)
(* between two positions within FAST_NOTICE_RANGE of the cat, 30 px apart, *)
(* so that every frame that follows a jump is a fast frame; dizzy is       *)
(* disabled or enabled before the pointer first moves; the pointer never   *)
(* rests for mediumIdleMs; at most MaxFrames frames see the pointer moved. *)

BurstPointers == { [x |-> 900, y |-> 700], [x |-> 930, y |-> 700] }

\* Time passes until the next timeout is due, or by MaxDuration.
BurstSteps == {4000}

\* Number of frames of a run in which the pointer has moved.
MaxFrames == 7

\* Settings that enable every state or disable dizzy.
DizzyOnOff ==
  {[has |-> {"disabledStates"}, catSpeed |-> 0, idleTimeout |-> 0,
    disabledStates |-> X] : X \in {{}, {DIZZY}}}

\* A timer is pending, a cooldown is running or a fast frame is younger
\* than fastBurstWindow, and the pointer has not rested for mediumIdleMs
\* once the time has passed.
BurstBusy ==
  /\ tracker.lastMoveAge + Min(MaxDuration, TimeLeft) < tracker.mediumIdleMs
  /\ \/ CatBusy
     \/ tracker.fastBursts # << >>
     \/ hist.fast # << >>

NextBurst ==
  \/ Start
  \/ (tracker.angleSamples = << >> /\ ApplySettings(DizzyOnOff))
  \/ (Len(tracker.angleSamples) < MaxFrames /\ PointerMove(BurstPointers))
  \/ Tick
  \/ TimerFire
  \/ (BurstBusy /\ Advance(BurstSteps))

SpecBurst == Init /\ [][NextBurst]_vars

\* The frame that just ran was a fast frame, with the pointer within
\* FAST_NOTICE_RANGE of the cat and the machine in pounce.
FastFrameInPounce ==
  obs.op = "tick" /\ obs.fast /\ ~obs.far /\ obs.from = POUNCE

\* C12 as stated: the fifth fast frame within 5000 ms, in range and in
\* pounce, emits repeatedFast and takes the machine from pounce to dizzy.
C12_FifthFastFrameDizzy ==
  (FastFrameInPounce /\ Len(hist.fast) >= fastBurstCount) =>
    (InSeq(obs.emitted, REPEATED_FAST) /\ sm.state = DIZZY)

\* C12 amended: the fifth fast frame within less than 5000 ms since the
\* last repeatedFast (or since the start) emits repeatedFast; in range and
\* in pounce it is passed to send and takes the machine to dizzy unless
\* dizzy is disabled.  A frame of fewer emits no repeatedFast.
C12_FifthFastFrameSinceLast ==
  /\ (obs.op = "tick" /\ obs.fast) =>
       (InSeq(obs.emitted, REPEATED_FAST) <=> obs.bursts >= fastBurstCount - 1)
  /\ (FastFrameInPounce /\ obs.bursts >= fastBurstCount - 1) =>
       /\ InSeq(obs.sent, REPEATED_FAST)
       /\ IF DIZZY \in sm.disabledStates
            THEN sm.state = POUNCE
            ELSE sm.state = DIZZY /\ tracker.fastBursts = << >>

\* C12 witness: the fifth fast frame took the machine from pounce to dizzy.
C12_Witness ==
  /\ FastFrameInPounce /\ obs.bursts = fastBurstCount - 1
  /\ sm.state = DIZZY /\ InSeq(obs.notified, <<DIZZY, POUNCE>>)

---------------------------------------------------------------------------
(* The range gate of the fast signals, checked under SpecCat               *)

\* The controller has just received a cursorFast or a repeatedFast while the
\* pointer was farther than FAST_NOTICE_RANGE from the cat's position.
FarFastDelivered ==
  /\ obs.op = "handleEvent" /\ obs.ev \in {CURSOR_FAST, REPEATED_FAST}
  /\ obs.far

\* C13: a cursorFast or repeatedFast emitted while the pointer is farther
\* than 250 px from the cat's position is not passed to send, leaves every
\* cooldown timestamp as it was, and changes neither the state machine nor
\* the renderer; nothing is notified.
C13_FarFastDiscarded ==
  [][FarFastDelivered' =>
       /\ obs'.sent = << >> /\ obs'.notified = << >>
       /\ cat' = cat /\ sm' = sm /\ renderer' = renderer]_vars

\* C13 witness: a far cursorFast arrived in idle with its cooldown over,
\* where a near one would have been passed to send.
C13_Witness ==
  /\ FarFastDelivered /\ obs.ev = CURSOR_FAST /\ obs.from = IDLE
  /\ tracker.started
  /\ cat.eventCooldowns[CURSOR_FAST] = cooldownMs[CURSOR_FAST]
  /\ sm.state = IDLE /\ obs.sent = << >>

---------------------------------------------------------------------------
(* Stopping, checked under Spec                                            *)

\* C14 as stated: while the pet is stopped no timeout of the state machine
\* is pending and none fires, so that the state does not change and nothing
\* is notified until the next start.
C14_StoppedNothingPending ==
  ~tracker.started => (sm.pending = {} /\ obs.op # "timer")

\* C15 as stated: start() while the pet is started and stop() while it is
\* stopped are no-ops: the state, the pending timeout, the registered
\* listeners and the mount are as before, and nothing is notified.
C15_SecondCallNoOp ==
  [][((obs'.op = "start" /\ tracker.started) \/
      (obs'.op = "stop" /\ ~tracker.started)) =>
       /\ sm'.state = sm.state /\ sm'.pending = sm.pending
       /\ tracker' = tracker /\ renderer' = renderer
       /\ obs'.notified = << >>]_vars

---------------------------------------------------------------------------
(* SpecSettings: settings objects with every subset of the three fields    *)
(* arrive at any time, before the first start, while the pet runs and      *)
(* while it is stopped; clicks and longIdle signals move the machine.      *)

FieldNames == {"catSpeed", "idleTimeout", "disabledStates"}

\* The settings objects: absent fields are left at the values of NoSettings.
SettingsArgs ==
  {[has |-> H,
    catSpeed |-> IF "catSpeed" \in H THEN c ELSE 0,
    idleTimeout |-> IF "idleTimeout" \in H THEN t ELSE 0,
    disabledStates |-> IF "disabledStates" \in H THEN X ELSE {}] :
     H \in SUBSET FieldNames, c \in {3}, t \in {12},
     X \in {{}, {STARTLED}, {STARTLED, IDLE}}}

SettingsEvents == {CLICK, LONG_IDLE}

NextSettings ==
  \/ Start
  \/ Stop
  \/ ApplySettings(SettingsArgs)
  \/ Send(SettingsEvents)
  \/ TimerFire
  \/ Advance(MachineSteps)

SpecSettings == InitQuiet /\ [][NextSettings]_vars

AppliedAgain ==
  /\ obs.op = "applySettings" /\ obs'.op = "applySettings"
  /\ obs'.settings = obs.settings

\* C17: applying the same settings object twice in a row leaves the state,
\* the disabled set, the idle threshold and the speed factor as the first
\* application left them, and the second application notifies nothing.
C17_SecondApplicationChangesNothing ==
  [][AppliedAgain =>
       /\ sm'.state = sm.state /\ sm'.disabledStates = sm.disabledStates
       /\ sm'.pending = sm.pending
       /\ tracker'.mediumIdleMs = tracker.mediumIdleMs
       /\ renderer'.speed = renderer.speed
       /\ obs'.notified = << >>]_vars

\* C17 witness: a settings object with all three fields that disables
\* startled and names idle arrived in startled and snapped the machine to
\* idle; it can now be applied again.
C17_Witness ==
  /\ obs.op = "applySettings" /\ obs.settings.has = FieldNames
  /\ obs.settings.disabledStates = {STARTLED, IDLE}
  /\ obs.from = STARTLED /\ sm.state = IDLE /\ obs.notified # << >>
  /\ tracker.started

---------------------------------------------------------------------------
(* The cursor-near flag, checked under SpecSleep                           *)

\* The controller has just received a nearCursor or a cursorAway.
ProximityDelivered ==
  obs.op = "handleEvent" /\ obs.ev \in {NEAR_CURSOR, CURSOR_AWAY}

\* C18: after the controller has received a nearCursor the renderer's
\* cursor-near flag is true, and after a cursorAway it is false, whether
\* the signal was passed to send or dropped by its cooldown.
C18_ProximitySetsFlag ==
  ProximityDelivered => (renderer.cursorNear <=> obs.ev = NEAR_CURSOR)

\* C18 witness: a nearCursor was dropped by its cooldown after a cursorAway
\* had cleared the flag, and the flag is true.
C18_Witness ==
  /\ ProximityDelivered /\ obs.ev = NEAR_CURSOR /\ obs.sent = << >>
  /\ obs.before.any /\ obs.before.sincePassed < cooldownMs[NEAR_CURSOR]
  /\ hist.signals[CURSOR_AWAY].any
  /\ hist.signals[CURSOR_AWAY].sinceDelivered < obs.before.sinceDelivered
  /\ renderer.cursorNear

---------------------------------------------------------------------------
(* Timer discipline, checked under Spec                                    *)

\* C19: at most one timeout is pending; a pending timeout is the one the
\* current occupancy of a timed state started (it is the one _timer holds
\* and is due when that occupancy has lasted the state's duration), so the
\* animationDone of a timeout is processed in the occupancy that started
\* it, never after that state was left.
C19_OneTimerOfThisOccupancy ==
  /\ Cardinality(sm.pending) <= 1
  /\ \A t \in sm.pending :
       /\ sm.state \in TimedStates /\ t.id = sm.timer
       /\ t.left = stateDurations[sm.state] - hist.sinceEnter
  /\ obs.op = "timer" =>
       (obs.from \in TimedStates /\ obs.heldFor = stateDurations[obs.from])

\* C19 witness: a timed state was left by a signal before its timeout was
\* due, for another timed state, and one timeout is pending.
C19_Witness ==
  /\ obs.op = "send" /\ obs.from \in TimedStates
  /\ 0 < obs.heldFor /\ obs.heldFor < stateDurations[obs.from]
  /\ sm.state \in TimedStates /\ sm.state # obs.from
  /\ Cardinality(sm.pending) = 1

---------------------------------------------------------------------------
(* Spatial directives, checked under Spec                                  *)

\* The directive the controller is to issue on entering state s, given the
\* renderer as it is once the handler has run (neither directive moves the
\* cat, so its position on entering s is that of s's sprite where it is).
Expected(s) ==
  IF s \in FREEZE_STATES
    THEN Directive("setTarget", position([renderer EXCEPT !.currentState = s]))
    ELSE Directive("goHome", [x |-> 0, y |-> 0])

\* C20: for every transition notified in a step the controller has issued
\* exactly one directive, in order: setTarget with the cat's position for a
\* freeze state, goHome for a home state; never both, never one twice.
C20_OneDirectivePerTransition ==
  /\ Len(obs.directives) = Len(obs.notified)
  /\ \A i \in DOMAIN obs.notified :
       /\ obs.notified[i][1] \in FREEZE_STATES \cup HOME_STATES
       /\ obs.directives[i] = Expected(obs.notified[i][1])

\* C20 witness: a step entered a freeze state from a home state and issued
\* the one setTarget.
C20_Witness ==
  /\ obs.notified # << >>
  /\ obs.notified[1][1] \in FREEZE_STATES /\ obs.notified[1][2] \in HOME_STATES
  /\ obs.directives = << Expected(obs.notified[1][1]) >>
  /\ renderer.targetX = renderer.x /\ renderer.targetY = renderer.y

---------------------------------------------------------------------------
(* SpecPage: the content script.  The storage callback runs first, with    *)
(* the pet stored as enabled or not and startled stored as disabled or     *)
(* not; then toggle and settings messages arrive, clicks are sent and time *)
(* passes.  hist.config is the disabledStates of the last snapshot or      *)
(* settings message.                                                       *)

PageDisabled == {{}, {STARTLED}}

\* The settings of a snapshot or of a message from the popup.
PageSettings ==
  {[has |-> FieldNames, catSpeed |-> 5, idleTimeout |-> 5, disabledStates |-> X] :
     X \in PageDisabled}

Snapshots == {[enabled |-> b, settings |-> st] : b \in BOOLEAN, st \in PageSettings}

NextPage ==
  \/ Load(Snapshots)
  \/ (hist.loaded /\ Start)
  \/ (hist.loaded /\ Stop)
  \/ (hist.loaded /\ ApplySettings(PageSettings))
  \/ Send({CLICK})
  \/ TimerFire
  \/ Advance(MachineSteps)

SpecPage == InitQuiet /\ [][NextPage]_vars

\* C21 as stated: whenever the pet is running, the state machine's
\* disabled set is the disabledStates of the last snapshot or settings
\* message.
C21_RunningHasConfiguredSet ==
  (hist.loaded /\ tracker.started) => sm.disabledStates = hist.config

---------------------------------------------------------------------------
(* Signals without a rule, checked under Spec                              *)

\* C22: send of a signal other than animationDone for which the current
\* state declares no rule returns false and changes nothing: the state,
\* the disabled set, the timer handle and the pending timeout with its time
\* left, the renderer; no listener is notified.
C22_NoRuleNoOp ==
  [][(obs'.op = "send" /\ obs'.ev # ANIMATION_DONE
        /\ Targets(sm.state, obs'.ev) = {}) =>
       /\ ~obs'.ret /\ obs'.notified = << >>
       /\ sm' = sm /\ renderer' = renderer]_vars

\* C22 witness: a signal without a rule was sent to a timed state while its
\* timeout was running, and the timeout is still pending.
C22_Witness ==
  /\ obs.op = "send" /\ Targets(obs.from, obs.ev) = {}
  /\ obs.from \in TimedStates
  /\ 0 < obs.heldFor /\ obs.heldFor < stateDurations[obs.from]
  /\ ~obs.ret /\ sm.state = obs.from /\ sm.pending # {}

---------------------------------------------------------------------------
(* The cascade of send, checked under Spec                                 *)

\* The number of guards send has evaluated when it is through rule i of
\* state s for event e, every earlier rule for e having been skipped.
GuardsUpTo(s, e, i) ==
  Cardinality({j \in 1..i : transitions[s][j].event = e /\ transitions[s][j].guard})

\* Rule i of state s is for event e, its guard (if any) returned true in
\* the outcomes d, and its target is not disabled.
Survives(s, e, i, d) ==
  LET t == transitions[s][i] IN
  /\ t.event = e
  /\ t.guard => (GuardsUpTo(s, e, i) \in DOMAIN d /\ d[GuardsUpTo(s, e, i)])
  /\ t.target \notin sm.disabledStates

\* Every rule for e before rule i was skipped: its guard returned false or
\* its target is disabled.
EarlierSkipped(s, e, i, d) ==
  \A j \in 1..(i - 1) : transitions[s][j].event = e => ~Survives(s, e, j, d)

\* C23: send takes the first rule for the signal, in declaration order,
\* whose guard returned true and whose target is enabled; every earlier
\* rule for the signal was skipped for one of these two reasons, and each
\* rule tried had its own guard evaluation.  When no rule survives, the
\* state changes only by animationDone's fallback to idle.
C23_FirstSurvivingRuleTaken ==
  SendStep =>
    LET s == obs.from
        e == obs.ev
        d == obs.draws
        alive == {i \in DOMAIN transitions[s] :
                    Survives(s, e, i, d) /\ EarlierSkipped(s, e, i, d)}
    IN /\ Cardinality(alive) <= 1
       /\ \A i \in alive :
            /\ obs.ret /\ sm.state = transitions[s][i].target
            /\ Len(d) = GuardsUpTo(s, e, i)
       /\ alive = {} =>
            /\ Len(d) = GuardsUpTo(s, e, Len(transitions[s]))
            /\ IF e = ANIMATION_DONE /\ s # IDLE
                 THEN sm.state = IDLE ELSE (sm.state = s /\ ~obs.ret)

\* C23 witness: mediumIdle in idle took its third rule, drinking, after
\* the guards of the first two returned false.
C23_Witness ==
  /\ obs.op = "send" /\ obs.from = IDLE /\ obs.ev = MEDIUM_IDLE
  /\ obs.draws = << FALSE, FALSE >>
  /\ sm.state = DRINKING /\ sm.disabledStates = {}

---------------------------------------------------------------------------
(* Order of emission and handling within a frame, checked under SpecBurst  *)

\* C24 as stated: in a frame the tracker has emitted all of the frame's
\* signals before the controller handles any of them.
C24_EmitAllThenHandle ==
  obs.op = "tick" =>
    \A i, j \in DOMAIN obs.log :
      (obs.log[i][1] = "handled" /\ obs.log[j][1] = "emit") => j < i

\* The place of a signal in the order in which _tick makes its checks.
Rank(e) ==
  CASE e = DIRECTION_CHANGE -> 1
    [] e = CURSOR_FAST      -> 2
    [] e = REPEATED_FAST    -> 3
    [] e = CIRCULAR_MOTION  -> 4
    [] e = CURSOR_MOVE      -> 5
    [] e \in {LONG_IDLE, MEDIUM_IDLE} -> 6
    [] e \in {NEAR_CURSOR, CURSOR_AWAY} -> 7
    [] OTHER -> 0

\* C24 amended: in a frame the tracker emits its signals in the order
\* directionChange, cursorFast, repeatedFast, circularMotion, cursorMove,
\* idle signal, proximity signal, at most one of each, and the controller
\* handles each signal at once, when it is emitted: it has finished with
\* it, transition and directive included, before the tracker emits the
\* next one.
C24_EmitAndHandleInTurn ==
  obs.op = "tick" =>
    /\ \A i, j \in DOMAIN obs.emitted :
         i < j => (0 < Rank(obs.emitted[i]) /\ Rank(obs.emitted[i]) < Rank(obs.emitted[j]))
    /\ Len(obs.log) = 2 * Len(obs.emitted)
    /\ \A k \in DOMAIN obs.emitted :
         /\ obs.log[2 * k - 1] = <<"emit", obs.emitted[k]>>
         /\ obs.log[2 * k] = <<"handled", obs.emitted[k]>>
    /\ Len(obs.directives) = Len(obs.notified)

\* C24 witness: a frame emitted directionChange, cursorFast, repeatedFast
\* and cursorMove, and repeatedFast took the machine from pounce to dizzy
\* before cursorMove was emitted.
C24_Witness ==
  /\ obs.op = "tick" /\ obs.from = POUNCE /\ sm.state = DIZZY
  /\ obs.emitted = << DIRECTION_CHANGE, CURSOR_FAST, REPEATED_FAST, CURSOR_MOVE >>
  /\ obs.notified = << <<DIZZY, POUNCE>> >>

---------------------------------------------------------------------------
(* Settings that leave the current state enabled, checked under Spec       *)

\* C25: applySettings with a disabledStates that does not contain the
\* current state leaves the state, the timer handle and the pending timeout
\* with its time left as they were, and notifies nothing.
C25_SettingsKeepEnabledState ==
  [][(obs'.op = "applySettings" /\ sm.state \notin obs'.settings.disabledStates) =>
       /\ sm'.state = sm.state /\ sm'.timer = sm.timer
       /\ sm'.pending = sm.pending
       /\ obs'.notified = << >>]_vars

\* C25 witness: another state was disabled while a timed state's timeout
\* was running, and the timeout is still pending.
C25_Witness ==
  /\ obs.op = "applySettings" /\ ~obs.argHasFrom
  /\ obs.settings.disabledStates \ {IDLE} # {}
  /\ obs.from \in TimedStates /\ sm.state = obs.from
  /\ 0 < obs.heldFor /\ obs.heldFor < stateDurations[obs.from]
  /\ sm.pending # {} /\ sm.disabledStates = obs.settings.disabledStates \ {IDLE}

---------------------------------------------------------------------------
(* Idle's unguarded rules, checked under Spec                              *)

\* C26 as stated: sent in idle, click and directionChange each take the
\* machine to startled when startled is enabled, and longIdle takes it to
\* sleep when sleep is enabled.
C26_IdleClickDirectionLongIdle ==
  (obs.op = "send" /\ obs.from = IDLE) =>
    /\ (obs.ev \in {CLICK, DIRECTION_CHANGE} /\ STARTLED \notin sm.disabledStates)
         => sm.state = STARTLED
    /\ (obs.ev = LONG_IDLE /\ SLEEP \notin sm.disabledStates)
         => sm.state = SLEEP

---------------------------------------------------------------------------
(* The burst buffer, checked under SpecBurst                               *)

\* C27: the burst buffer always holds fewer than fastBurstCount timestamps;
\* after a fast frame all of them are younger than fastBurstWindow; a frame
\* emits repeatedFast exactly when it is a fast frame that brings the
\* buffer, pruned to the window, to fastBurstCount entries, and the buffer
\* is empty after it; any other fast frame adds its one timestamp.
C27_BurstBufferBelowCount ==
  /\ Len(tracker.fastBursts) < fastBurstCount
  /\ obs.op = "tick" =>
       /\ obs.fast => \A i \in DOMAIN tracker.fastBursts :
                        tracker.fastBursts[i] < fastBurstWindow
       /\ InSeq(obs.emitted, REPEATED_FAST) <=>
            (obs.fast /\ obs.bursts + 1 >= fastBurstCount)
       /\ InSeq(obs.emitted, REPEATED_FAST) =>
            (tracker.fastBursts = << >> /\ Count(obs.emitted, REPEATED_FAST) = 1)
       /\ (obs.fast /\ ~InSeq(obs.emitted, REPEATED_FAST)) =>
            Len(tracker.fastBursts) = obs.bursts + 1

\* C27 witness: the fifth fast frame of a burst emitted repeatedFast while
\* the machine was in idle, and the buffer is empty.
C27_Witness ==
  /\ obs.op = "tick" /\ obs.fast /\ obs.from = IDLE
  /\ obs.bursts = fastBurstCount - 1
  /\ InSeq(obs.emitted, REPEATED_FAST) /\ tracker.fastBursts = << >>

---------------------------------------------------------------------------
(* Clicks, checked under SpecSleep                                         *)

\* C28: every click event dispatched while the tracker is started is
\* emitted, handled and passed to StateMachine.send inside the click
\* handler itself, whatever time has passed since the previous click.
C28_ClickAlwaysSent ==
  obs.op = "click" =>
    /\ obs.emitted = <<CLICK>>
    /\ obs.sent = <<CLICK>>
    /\ obs.log = << <<"emit", CLICK>>, <<"handled", CLICK>> >>

\* C28 witness: a click arrived in startled with no time passed since the
\* machine entered it, and was passed to send.
C28_Witness ==
  /\ obs.op = "click" /\ obs.from = STARTLED /\ obs.heldFor = 0
  /\ obs.sent = <<CLICK>>

---------------------------------------------------------------------------
(* Both idle thresholds in one frame, checked under SpecIdle               *)

\* C29: a frame that starts with both idle thresholds reached and neither
\* idle signal emitted in the episode emits longIdle, once, and no
\* mediumIdle; it marks longIdle as emitted and leaves mediumIdle unmarked.
C29_LongIdleSuppressesMedium ==
  [][ ( /\ obs'.op = "tick"
        /\ tracker.lastMoveAge >= longIdleMs
        /\ tracker.lastMoveAge >= tracker.mediumIdleMs
        /\ ~tracker.idleEmitted.long
        /\ ~tracker.idleEmitted.medium )
      => ( /\ Count(obs'.emitted, LONG_IDLE) = 1
           /\ ~InSeq(obs'.emitted, MEDIUM_IDLE)
           /\ tracker'.idleEmitted = [medium |-> FALSE, long |-> TRUE] ) ]_vars

\* C29 witness: the first frame after a pause longer than both thresholds
\* emitted longIdle in an episode that has emitted no mediumIdle.
C29_Witness ==
  /\ obs.op = "tick" /\ InSeq(obs.emitted, LONG_IDLE)
  /\ tracker.lastMoveAge >= longIdleMs
  /\ tracker.lastMoveAge >= tracker.mediumIdleMs
  /\ hist.medium = 0 /\ hist.long = 1
  /\ ~tracker.idleEmitted.medium /\ tracker.idleEmitted.long

---------------------------------------------------------------------------
(* SpecDone: a machine left to its timers.  The cat is started, any set of *)
(* states is disabled, the machine is put into a timed state by reset      *)
(* (which does not consult the disabled set), and from then on only time   *)
(* passes and timeouts fire.                                               *)

DoneSteps == {4000}

\* Settings that disable any set of states other than idle.
AnyDisabled ==
  {[has |-> {"disabledStates"}, catSpeed |-> 0, idleTimeout |-> 0,
    disabledStates |-> X] : X \in SUBSET (States \ {IDLE})}

\* Time passes while a timeout is pending.
TimePasses == sm.pending # {} /\ Advance(DoneSteps)

NextDone ==
  \/ (obs.op = "init" /\ Start)
  \/ (obs.op = "start" /\ ApplySettings(AnyDisabled))
  \/ (obs.op = "applySettings" /\ Reset(TimedStates))
  \/ TimerFire
  \/ TimePasses

\* Time passes, a due timeout fires, and a guard that is evaluated again
\* and again comes out each way again and again.
FairDone ==
  /\ WF_vars(TimePasses)
  /\ \A draws \in TimerDraws : SF_vars(TimerFireWith(draws))

SpecDone == InitQuiet /\ [][NextDone]_vars /\ FairDone

\* C30: with fair guards and no signal but the timers' animationDone, a
\* machine in a timed state reaches idle, whatever states are disabled,
\* and every step on the way sends animationDone alone.
C30_TimedStateReachesIdle ==
  /\ (sm.state \in TimedStates) ~> (sm.state = IDLE)
  /\ [](obs.op = "timer" => obs.sent = <<ANIMATION_DONE>>)

\* C30 witness: startled, with falling disabled, was left for idle by its
\* timer.
C30_Witness ==
  /\ obs.op = "timer" /\ obs.from = STARTLED /\ sm.state = IDLE
  /\ FALLING \in sm.disabledStates

---------------------------------------------------------------------------
(* The auto-advance timer, checked under Spec                              *)

\* C31: between callbacks a timeout of the state machine is pending exactly
\* when the active state is a timed state; there is never more than one,
\* and _timer holds a handle exactly then.
C31_TimerPendingIffTimed ==
  /\ (sm.pending # {}) <=> (sm.state \in TimedStates)
  /\ (sm.timer # NoTimer) <=> (sm.state \in TimedStates)
  /\ Cardinality(sm.pending) <= 1
  /\ sm.state \in {IDLE, SLEEP, ALERT_SLEEP} => sm.pending = {}

\* C31 witness: applySettings disabled the timed state the machine was in
\* before its duration had passed; the machine is in idle and nothing is
\* pending.
C31_Witness ==
  /\ obs.op = "applySettings" /\ obs.from \in TimedStates
  /\ obs.heldFor > 0 /\ obs.heldFor < stateDurations[obs.from]
  /\ sm.state = IDLE /\ sm.pending = {} /\ sm.timer = NoTimer

---------------------------------------------------------------------------
(* Notifications, checked under Spec                                       *)

\* C32: every notification of a step carries a new state different from
\* the old one, the old one being the state the machine was in and the new
\* one the state it is in afterwards; a step that leaves the machine in the
\* state it was in notifies nothing and, unless time passes, leaves the
\* timer as it was.
C32_NotifiedStatesDiffer ==
  [][ /\ \A i \in DOMAIN obs'.notified :
           obs'.notified[i][1] # obs'.notified[i][2]
      /\ obs'.notified # << >> =>
           /\ obs'.notified[1][2] = sm.state
           /\ obs'.notified[Len(obs'.notified)][1] = sm'.state
           /\ sm'.state # sm.state
      /\ sm'.state = sm.state =>
           /\ obs'.notified = << >>
           /\ obs'.op # "advance" =>
                (sm'.pending = sm.pending /\ sm'.timer = sm.timer) ]_vars

\* C32 witness: Cat.start ran while the machine was in a timed state, and
\* reset notified the change from that state to idle.
C32_Witness ==
  /\ obs.op = "start" /\ obs.from \in TimedStates
  /\ obs.notified = << <<IDLE, obs.from>> >>

---------------------------------------------------------------------------
(* Cooldown timestamps, checked under SpecCat                              *)

\* C33: a callback sets the time since a signal kind last fired to zero
\* exactly when it delivers a signal of that kind and the controller passes
\* it to StateMachine.send, whether or not send makes a transition; every
\* other callback, a delivery dropped by the cooldown included, leaves it
\* as it was.
C33_StampOnlyWhenAdmitted ==
  [][ obs'.op # "advance" =>
        \A e \in CooldownEvents :
          IF obs'.op = "handleEvent" /\ obs'.ev = e /\ InSeq(obs'.sent, e)
            THEN cat'.eventCooldowns[e] = 0
            ELSE cat'.eventCooldowns[e] = cat.eventCooldowns[e] ]_vars

\* C33 witness: cursorAway was passed to send in idle, which has no rule
\* for it; the machine made no transition and the timestamp is the
\* current time.
C33_Witness ==
  /\ obs.op = "handleEvent" /\ obs.ev = CURSOR_AWAY /\ obs.from = IDLE
  /\ obs.sent = <<CURSOR_AWAY>> /\ ~obs.ret /\ obs.notified = << >>
  /\ cat.eventCooldowns[CURSOR_AWAY] = 0
  /\ obs.before.any

---------------------------------------------------------------------------
(* SpecWake: the state machine with startled and alertSleep, the two       *)
(* states sleep can be left for, disabled in any combination.              *)

\* Settings that disable any of startled and alertSleep.
WakeDisabled ==
  {[has |-> {"disabledStates"}, catSpeed |-> 0, idleTimeout |-> 0,
    disabledStates |-> X] : X \in SUBSET {STARTLED, ALERT_SLEEP}}

NextWake ==
  \/ Start
  \/ ApplySettings(WakeDisabled)
  \/ Send(ExternalEvents)
  \/ TimerFire
  \/ Advance(MachineSteps)

SpecWake == InitQuiet /\ [][NextWake]_vars

\* The states one send(e) can take the machine to from state s under the
\* disabled set D, over every outcome of the guards; animationDone is sent
\* in timed states only, by their timeout.
Successors(s, D) ==
  LET after(e, d) ==
        LET hit == scanRules(transitions[s], 1, e, D, d, 0) IN
        IF hit.idx # 0 THEN transitions[s][hit.idx].target
        ELSE IF e = ANIMATION_DONE /\ s # IDLE THEN IDLE
        ELSE s
  IN {after(e, d) : e \in ExternalEvents, d \in SendDraws}
       \cup (IF s \in TimedStates
               THEN {after(ANIMATION_DONE, d) : d \in SendDraws} ELSE {})

\* The states reachable from those of S in at most n sends.
RECURSIVE ReachableIn(_, _, _)
ReachableIn(S, D, n) ==
  IF n = 0 THEN S
  ELSE ReachableIn(S \cup UNION {Successors(s, D) : s \in S}, D, n - 1)

\* C34 as stated: from every reachable state, under the disabled set in
\* force, some sequence of signals and timer firings leads to idle.
C34_IdleReachableFromEverywhere ==
  IDLE \in ReachableIn({sm.state}, sm.disabledStates, Cardinality(States))

---------------------------------------------------------------------------
(* SpecNap: a pointer that never moves and is never clicked.  The cat is   *)
(* started once; frames run, timeouts fire and time passes.                *)

NapSteps == {4000}

NextNap ==
  \/ (~tracker.started /\ Start)
  \/ Tick
  \/ TimerFire
  \/ Advance(NapSteps)

\* While the cat is started frames keep running (weak fairness of Tick,
\* which is enabled exactly while the tracker is started, written with the
\* record of the last step), time passes, a due timeout fires, and a guard
\* that is evaluated again and again comes out each way again and again.
FairNap ==
  /\ []<>(~tracker.started \/ obs.op = "tick")
  /\ WF_vars(Advance(NapSteps))
  /\ \A draws \in TimerDraws : SF_vars(TimerFireWith(draws))

SpecNap == Init /\ [][NextNap]_vars /\ FairNap

\* C35 as stated: when the pointer has been motionless for longIdleMs, the
\* cat is started and sleep is enabled, the machine eventually is in sleep
\* (no click and no pointer movement ever follows in SpecNap).
C35_MotionlessLeadsToSleep ==
  (tracker.started /\ tracker.lastMoveAge >= longIdleMs
     /\ SLEEP \notin sm.disabledStates)
    ~> (sm.state = SLEEP)

---------------------------------------------------------------------------
(* SpecRace: the content script with its storage callback and its message  *)
(* listener in any order.  The listener is registered when the script      *)
(* runs; the callback of chrome.storage.sync.get runs later, with the      *)
(* snapshot read when the script ran.                                      *)

NextRace ==
  \/ Load(Snapshots)
  \/ Start
  \/ Stop
  \/ ApplySettings(PageSettings)
  \/ Send({CLICK})
  \/ TimerFire
  \/ Advance(MachineSteps)

SpecRace == InitQuiet /\ [][NextRace]_vars

\* C36 as stated: from the handling of a toggle message with enabled false
\* until the handling of one with enabled true, the pet is stopped.
C36_OffUntilToggledOn == hist.off => ~tracker.started

---------------------------------------------------------------------------
(* SpecFreeze: the state machine and the renderer's animation loop.        *)

NextFreeze ==
  \/ Start
  \/ Stop
  \/ Send(ExternalEvents)
  \/ Animate
  \/ TimerFire
  \/ Advance(MachineSteps)

SpecFreeze == InitQuiet /\ [][NextFreeze]_vars

\* C37: a step that enters a freeze state leaves the renderer's target
\* equal to the pet's untranslated position (_x, _y), the position handed
\* to setTarget being that of the position getter; while the machine is in
\* a freeze state the target stays there and an interpolation step leaves
\* the position as it was.
C37_FreezeTargetIsPosition ==
  [][ /\ (obs'.notified # << >> /\ sm'.state \in FREEZE_STATES) =>
           /\ renderer'.targetX = renderer'.x
           /\ renderer'.targetY = renderer'.y
           /\ obs'.directives =
                << Directive("setTarget", position(renderer')) >>
      /\ sm'.state \in FREEZE_STATES =>
           (renderer'.targetX = renderer'.x /\ renderer'.targetY = renderer'.y)
      /\ (obs'.op = "animate" /\ sm.state \in FREEZE_STATES) =>
           (renderer'.x = renderer.x /\ renderer'.y = renderer.y) ]_vars

\* C37 witness: an interpolation step ran while the machine was in falling,
\* whose sprite is narrower than startled's, from which it was entered.
C37_Witness ==
  /\ obs.op = "animate" /\ sm.state = FALLING /\ renderer.currentState = FALLING
  /\ renderer.targetX = renderer.x /\ renderer.targetY = renderer.y

---------------------------------------------------------------------------
(* The renderer's state, checked under Spec                                *)

\* C38: after every callback the renderer's state is the state machine's
\* active state; the renderer's state changes only in a callback that
\* notified a state change, and then to the state notified last.
C38_RendererFollowsMachine ==
  [][ /\ renderer'.currentState = sm'.state
      /\ renderer'.currentState # renderer.currentState =>
           /\ obs'.notified # << >>
           /\ obs'.notified[Len(obs'.notified)][1] = renderer'.currentState
      /\ obs'.notified = << >> => renderer'.currentState = renderer.currentState
    ]_vars

\* C38 witness: a timeout fired while the cat was stopped and the renderer
\* unmounted; the renderer holds the state the machine went to.
C38_Witness ==
  /\ obs.op = "timer" /\ ~tracker.started /\ ~renderer.mounted
  /\ sm.state # obs.from /\ renderer.currentState = sm.state

---------------------------------------------------------------------------
(* Waking by proximity, checked under SpecSleep                            *)

\* C39: alertSleep is entered from sleep only, by a nearCursor signal that
\* is passed to send and so restarts the nearCursor cooldown; while the
\* machine stays in alertSleep nothing restarts that cooldown, so the time
\* since nearCursor last fired is the time spent in alertSleep; and a
\* nearCursor signal takes the machine from alertSleep to idle only when
\* that time has reached the nearCursor cooldown.
C39_WakeTakesACooldown ==
  [][ /\ (sm.state # ALERT_SLEEP /\ sm'.state = ALERT_SLEEP) =>
           /\ sm.state = SLEEP
           /\ obs'.ev = NEAR_CURSOR /\ InSeq(obs'.sent, NEAR_CURSOR)
           /\ cat'.eventCooldowns[NEAR_CURSOR] = 0
      /\ (sm.state = ALERT_SLEEP /\ sm'.state = ALERT_SLEEP
             /\ obs'.op # "advance") =>
           cat'.eventCooldowns[NEAR_CURSOR] = cat.eventCooldowns[NEAR_CURSOR]
      /\ (sm.state = ALERT_SLEEP /\ sm'.state = IDLE
             /\ obs'.ev = NEAR_CURSOR) =>
           /\ cat.eventCooldowns[NEAR_CURSOR] >= cooldownMs[NEAR_CURSOR]
           /\ obs'.sent = <<NEAR_CURSOR>>
      /\ (sm.state = SLEEP /\ obs'.ev = NEAR_CURSOR) => sm'.state # IDLE
    ]_vars

\* C39 witness: the second nearCursor signal passed to send, one cooldown
\* after the first, took the machine from alertSleep to idle.
C39_Witness ==
  /\ obs.op = "handleEvent" /\ obs.ev = NEAR_CURSOR
  /\ obs.from = ALERT_SLEEP /\ sm.state = IDLE
  /\ obs.before.passed /\ obs.before.sincePassed = cooldownMs[NEAR_CURSOR]
  /\ cat.eventCooldowns[NEAR_CURSOR] = 0

---------------------------------------------------------------------------
(* Startled, checked under Spec                                            *)

\* C40: in startled a send of any signal but animationDone returns false
\* and leaves the state; the machine leaves startled only when its timeout
\* fires, for falling if falling is enabled and for idle otherwise, when
\* applySettings disables startled, for idle, or when Cat.start resets the
\* machine, for idle.
C40_StartledLeftByTimerOnly ==
  [][ sm.state = STARTLED =>
        /\ obs'.op = "send" => (sm'.state = STARTLED /\ ~obs'.ret)
        /\ obs'.op = "timer" =>
             sm'.state = IF FALLING \in sm.disabledStates THEN IDLE ELSE FALLING
        /\ sm'.state # STARTLED =>
             \/ obs'.op = "timer"
             \/ /\ obs'.op = "applySettings"
                /\ STARTLED \in sm'.disabledStates /\ sm'.state = IDLE
             \/ obs'.op = "start" /\ sm'.state = IDLE ]_vars

\* C40 witness: a click was sent in startled and changed nothing.
C40_Witness ==
  /\ obs.op = "send" /\ obs.ev = CLICK /\ obs.from = STARTLED
  /\ sm.state = STARTLED /\ ~obs.ret /\ obs.notified = << >>

====
